---------------------------- MODULE Spec2Model ----------------------------
(***************************************************************************)
(* A model of the gphoto2 camera driver and of the observatory of POCS:    *)
(*   camera/gphoto/base.py   AbstractGPhotoCamera, the command channel     *)
(*   camera/gphoto/canon.py  Camera, the shutter speed lookup, exposures   *)
(*   observatory.py          Observatory, observe and process_observation  *)
(*                                                                         *)
(* Spec         the command channel of the cameras: command,               *)
(*              get_command_result, is_exposing, the property calls, and   *)
(*              the external gphoto2 processes running beside them.        *)
(* SpecShutter  get_shutterspeed_index applied to bounded inputs, over the *)
(*              table of the code and over the table of the examples.      *)
(* SpecExposure Camera._start_exposure on the command channel.             *)
(* SpecListing  load_properties on the listings of the camera's            *)
(*              configuration.                                             *)
(* SpecObserve  Observatory.observe: the calls of take_observation and the *)
(*              timed wait for the cameras.                                *)
(* SpecProcess  Observatory.process_observation over the latest exposures  *)
(*              of the registered cameras.                                 *)
(* SpecToggles  process_observation under every combination of arguments   *)
(*              and configuration keys.                                    *)
(* SpecTracking Observatory.analyze_recent and update_tracking.             *)
(* SpecRegistry the cameras, the primary camera, the mount, the dome and    *)
(*              the scheduler of the Observatory.                          *)
(***************************************************************************)
EXTENDS Integers, Sequences, FiniteSets, TLC

VARIABLES
    _command_proc,       \* camera -> the Popen handle it holds (NoProc is None)
    _is_exposing_event,  \* camera -> the threading.Event of AbstractCamera
    orphans,             \* camera -> live processes it started and no longer holds
    ret,                 \* the last call made on a camera and how it ended
    seconds,             \* get_shutterspeed_index: the requested duration
    return_minimum,      \* get_shutterspeed_index: the flag
    table,               \* which shutter speed table the lookup runs on
    shutterspeed_idx,    \* what get_shutterspeed_index returned or raised
    spc,                 \* "call" before the lookup, "done" after it
    cmd_args,            \* _start_exposure: the arguments it built for gphoto2
    warning,             \* _start_exposure: what it passed to logger.warning
    cameras,             \* Observatory.cameras: the names, in insertion order
    is_observing,        \* camera -> AbstractCamera.is_observing
    done_at,             \* camera -> when it stopped observing (-1: not yet)
    exptime,             \* current_observation.exptime
    readout_time,        \* primary_camera.readout_time
    cam_timeout,         \* primary_camera.timeout
    blocking,            \* observe: its argument
    opc,                 \* observe: where it is, or how it ended
    taken,               \* observe: the cameras take_observation was called on
    now,                 \* the time since observe began to wait
    target_time,         \* CountdownTimer: when the timer expires
    wake,                \* when the current sleep of observe ends
    last_poll,           \* when observe last asked the cameras (-1: never)
    metadata,            \* camera -> the metadata of its latest exposure
    enabled,             \* process_observation: the steps switched on
    raising,             \* process_observation: the step that raises, or "none"
    ppc,                 \* process_observation: "idle", or how it ended
    reached,             \* process_observation: the cameras its loop came to
    processed,           \* process_observation: the cameras it ran steps for
    run,                 \* camera -> the steps that ran for its exposure
    db,                  \* camera -> the dict given to db.insert_current
    override,            \* process_observation: step -> the argument given
    config,              \* the observations.* keys get_config finds true
    entered,             \* camera -> the steps whose `if` was taken
    current_offset_info, \* Observatory.current_offset_info: 0 is None, else
                         \* the analysis that computed the offset
    cycle,               \* the analyze_recent calls made so far
    analysis,            \* analyze_recent: how the last call went
    updates,             \* update_tracking calls since the last analyze_recent
    mount_calls,         \* update_tracking: the mount calls of the last call
    corrected,           \* the offsets given to mount.correct_tracking
    tpc,                 \* the last tracking call, and how it ended
    registry,            \* Observatory.cameras: name -> the camera object
    _primary_camera,     \* Observatory._primary_camera ("None" is None)
    is_primary,          \* camera object -> AbstractCamera.is_primary
    hardware,            \* "mount", "dome", "scheduler" -> the attribute
    rpc                  \* the last registry call, and how it ended

chanVars == <<_command_proc, _is_exposing_event, orphans, ret>>
shutVars == <<seconds, return_minimum, table, shutterspeed_idx, spc>>
expVars == <<cmd_args, warning>>
camVars == <<is_observing, done_at>>
pipeVars == <<metadata, enabled, raising, ppc, reached, processed, run, db,
              override, config, entered>>
trkVars == <<current_offset_info, cycle, analysis, updates, mount_calls,
             corrected, tpc>>
regVars == <<registry, _primary_camera, is_primary, hardware, rpc>>
obsVars == <<cameras, exptime, readout_time, cam_timeout,
             blocking, opc, taken, now, target_time, wake, last_poll>>
vars == <<_command_proc, _is_exposing_event, orphans, ret,
          seconds, return_minimum, table, shutterspeed_idx, spc,
          cmd_args, warning,
          cameras, is_observing, done_at, exptime, readout_time, cam_timeout,
          blocking, opc, taken, now, target_time, wake, last_poll,
          metadata, enabled, raising, ppc, reached, processed, run, db,
          override, config, entered,
          current_offset_info, cycle, analysis, updates, mount_calls,
          corrected, tpc,
          registry, _primary_camera, is_primary, hardware, rpc>>

(***************************************************************************)
(* Bounds of the model.                                                    *)
(***************************************************************************)
\* lines a gphoto2 process writes to stdout at most
MaxLines == 1
\* live processes of one camera that nothing holds any more, at most
MaxOrphans == 1
\* analyze_recent calls at most
MaxCycles == 3
\* update_tracking calls between two analyze_recent calls at most
MaxUpdates == 2
\* lines of a gphoto2 --list-all-config output at most
MaxListing == 2

Cameras == {"Cam00", "Cam01"}

\* The stdout lines a gphoto2 process may write (each ends with a newline).
Lines == {"Current: 100", "Label: ISO Speed"}

(***************************************************************************)
(* External gphoto2 processes.  A handle is "None" (the Python None),      *)
(* "running" (a process for which poll() is None) or "exited" (a process   *)
(* that has ended).  What a process has written to its pipe is seen only   *)
(* when communicate() collects it, so it is chosen there.                  *)
(***************************************************************************)
NoProc == "None"

NewProc == "running"

\* Every output of at most n lines.
RECURSIVE OutputsUpTo(_)
OutputsUpTo(n) ==
    IF n = 0 THEN {<<>>}
    ELSE LET shorter == OutputsUpTo(n - 1)
         IN  shorter \cup {Append(o, l) : o \in {x \in shorter : Len(x) = n - 1},
                                          l \in Lines}

Outputs == OutputsUpTo(MaxLines)

\* str.split('\n') of an output made of whole lines: the lines, then ''.
Split(out) == Append(out, "")

\* The record of a call that has returned or raised.
\*   outcome  "ok", or the exception raised
\*   kind     the type of the value returned: "None", "list", "bool", "str"
\*   lines    the list get_command_result returned (<<>>: none)
\*   val      the bool or str returned ("" otherwise)
\*   pre      the state of the handle when the call began
\*   proc     how the process the call waited for ended ("none": no wait)
\*   timeout  whether communicate(timeout) raised TimeoutExpired
Ret(op, cam, outcome, kind, lines, val, pre, proc, timeout) ==
    [op |-> op, cam |-> cam, outcome |-> outcome, kind |-> kind,
     lines |-> lines, val |-> val, pre |-> pre, proc |-> proc,
     timeout |-> timeout]

NoRet == Ret("none", "none", "ok", "None", <<>>, "", "None", "none", FALSE)

(***************************************************************************)
(* AbstractGPhotoCamera.is_exposing: clears the event when the held        *)
(* process has exited, then returns the event.                             *)
(***************************************************************************)
EventAfterPoll(c) ==
    IF _command_proc[c] # NoProc /\ _command_proc[c] = "exited"
    THEN FALSE
    ELSE _is_exposing_event[c]

IsExposingValue(c) == EventAfterPoll(c)

is_exposing(c) ==
    /\ _is_exposing_event' = [_is_exposing_event EXCEPT ![c] = EventAfterPoll(c)]
    /\ ret' = Ret("is_exposing", c, "ok", "bool", <<>>,
                  IF IsExposingValue(c) THEN "True" ELSE "False",
                  _command_proc[c], "none", FALSE)
    /\ UNCHANGED <<_command_proc, orphans>>

(***************************************************************************)
(* AbstractGPhotoCamera.command.  popen is what subprocess.Popen does:     *)
(* "ok", or the exception it raises.                                       *)
(***************************************************************************)
PopenOutcomes == {"ok", "OSError", "ValueError", "Exception"}

\* The exception command raises for an exception of Popen.
CommandError(popen) ==
    CASE popen = "OSError" -> "InvalidCommand"
      [] popen = "ValueError" -> "InvalidCommand"
      [] OTHER -> "PanError"

\* The processes of c left alive and unheld once the handle is overwritten.
OrphansAfterSpawn(c) ==
    IF _command_proc[c] = "running" THEN orphans[c] + 1 ELSE orphans[c]

command(c, popen) ==
    /\ _is_exposing_event' = [_is_exposing_event EXCEPT ![c] = EventAfterPoll(c)]
    /\ IF IsExposingValue(c)
       THEN /\ ret' = Ret("command", c, "InvalidCommand", "None", <<>>,
                          "Command already running",
                          _command_proc[c], "none", FALSE)
            /\ UNCHANGED <<_command_proc, orphans>>
       ELSE IF popen = "ok"
       THEN /\ OrphansAfterSpawn(c) <= MaxOrphans
            /\ _command_proc' = [_command_proc EXCEPT ![c] = NewProc]
            /\ orphans' = [orphans EXCEPT ![c] = OrphansAfterSpawn(c)]
            /\ ret' = Ret("command", c, "ok", "None", <<>>, "",
                          _command_proc[c], "none", FALSE)
       ELSE /\ ret' = Ret("command", c, CommandError(popen), "None", <<>>,
                          popen, _command_proc[c], "none", FALSE)
            /\ UNCHANGED <<_command_proc, orphans>>

(***************************************************************************)
(* AbstractGPhotoCamera.get_command_result.  timed_out: the process is     *)
(* still running when communicate(timeout) gives up; outs: what the        *)
(* process has written by the time it ends or is killed.                   *)
(***************************************************************************)
\* communicate(timeout), and on TimeoutExpired kill() and communicate():
\* the output collected and how the process ended.
\* communicate(timeout) without the kill() of line 122: on TimeoutExpired the
\* output so far is taken and the process is left running.
Communicate_nokill(proc, timed_out, outs) ==
    [outs |-> outs,
     proc |-> IF proc = "running" /\ timed_out THEN "running" ELSE "exited"]

Communicate(proc, timed_out, outs) ==
    [outs |-> outs,
     proc |-> IF proc = "running" /\ timed_out THEN "killed" ELSE "exited"]

\* The choices that make sense for a handle: communicate(timeout) gives up
\* only on a running process, and no process has no output.
WaitChoice(proc, timed_out, outs) ==
    /\ timed_out => proc = "running"
    /\ proc = NoProc => outs = <<>>

\* get_command_result without line 132, "self._command_proc = None".
get_command_result_keep(c, timed_out, outs) ==
    /\ WaitChoice(_command_proc[c], timed_out, outs)
    /\ IF _command_proc[c] = NoProc
       THEN /\ ret' = Ret("get_command_result", c, "ok", "None", <<>>, "",
                          NoProc, "none", FALSE)
            /\ UNCHANGED <<_command_proc, _is_exposing_event, orphans>>
       ELSE LET r == Communicate(_command_proc[c], timed_out, outs)
            IN  /\ _command_proc' = [_command_proc EXCEPT ![c] = "exited"]
                /\ ret' = Ret("get_command_result", c, "ok", "list",
                              Split(r.outs), "", _command_proc[c],
                              r.proc, timed_out)
                /\ UNCHANGED <<_is_exposing_event, orphans>>

get_command_result(c, timed_out, outs) ==
    /\ WaitChoice(_command_proc[c], timed_out, outs)
    /\ IF _command_proc[c] = NoProc
       THEN /\ ret' = Ret("get_command_result", c, "ok", "None", <<>>, "",
                          NoProc, "none", FALSE)
            /\ UNCHANGED <<_command_proc, _is_exposing_event, orphans>>
       ELSE LET r == Communicate(_command_proc[c], timed_out, outs)
            IN  /\ _command_proc' = [_command_proc EXCEPT ![c] = NoProc]
                /\ ret' = Ret("get_command_result", c, "ok", "list",
                              Split(r.outs), "", _command_proc[c],
                              r.proc, timed_out)
                /\ UNCHANGED <<_is_exposing_event, orphans>>

(***************************************************************************)
(* The calls that run a command and wait for it: command(cmd), then        *)
(* get_command_result() with the default timeout.  When command raises,    *)
(* the exception leaves the call and nothing is waited for.  kind, lines   *)
(* and val say what the call returns for the output it collected.          *)
(***************************************************************************)
RunAndWait(op, c, popen, timed_out, outs, kind, lines, val) ==
    /\ (IsExposingValue(c) \/ popen # "ok") => (~timed_out /\ outs = <<>>)
    /\ _is_exposing_event' = [_is_exposing_event EXCEPT ![c] = EventAfterPoll(c)]
    /\ IF IsExposingValue(c)
       THEN /\ ret' = Ret(op, c, "InvalidCommand", "None", <<>>,
                          "Command already running",
                          _command_proc[c], "none", FALSE)
            /\ UNCHANGED <<_command_proc, orphans>>
       ELSE IF popen = "ok"
       THEN LET r == Communicate(NewProc, timed_out, outs)
            IN  /\ OrphansAfterSpawn(c) <= MaxOrphans
                /\ _command_proc' = [_command_proc EXCEPT ![c] = NoProc]
                /\ orphans' = [orphans EXCEPT ![c] = OrphansAfterSpawn(c)]
                /\ ret' = Ret(op, c, "ok", kind, lines, val,
                              _command_proc[c], r.proc, timed_out)
       ELSE /\ ret' = Ret(op, c, CommandError(popen), "None", <<>>,
                          popen, _command_proc[c], "none", FALSE)
            /\ UNCHANGED <<_command_proc, orphans>>

\* set_property without line 143, the get_command_result() that "forces the
\* command to wait": the command alone.
set_property_nowait(c, popen, timed_out) ==
    /\ ~timed_out
    /\ _is_exposing_event' = [_is_exposing_event EXCEPT ![c] = EventAfterPoll(c)]
    /\ IF IsExposingValue(c)
       THEN /\ ret' = Ret("set_property", c, "InvalidCommand", "None", <<>>,
                          "Command already running",
                          _command_proc[c], "none", FALSE)
            /\ UNCHANGED <<_command_proc, orphans>>
       ELSE IF popen = "ok"
       THEN /\ OrphansAfterSpawn(c) <= MaxOrphans
            /\ _command_proc' = [_command_proc EXCEPT ![c] = NewProc]
            /\ orphans' = [orphans EXCEPT ![c] = OrphansAfterSpawn(c)]
            /\ ret' = Ret("set_property", c, "ok", "None", <<>>, "",
                          _command_proc[c], "none", FALSE)
       ELSE /\ ret' = Ret("set_property", c, CommandError(popen), "None", <<>>,
                          popen, _command_proc[c], "none", FALSE)
            /\ UNCHANGED <<_command_proc, orphans>>

\* set_property and set_properties discard the output.
set_property(c, popen, timed_out) ==
    RunAndWait("set_property", c, popen, timed_out, <<>>, "None", <<>>, "")

set_properties(c, popen, timed_out) ==
    RunAndWait("set_properties", c, popen, timed_out, <<>>, "None", <<>>, "")

\* re.match(r'Current:\s*(.*)', line): the group, or "" when there is no match.
CurrentMatch(line) ==
    CASE line = "Current: 100" -> "100"
      [] OTHER -> ""

IsCurrent(line) == line \in {"Current: 100"}

\* The loop of get_property: the group of the last line that matches.
RECURSIVE LastCurrent(_)
LastCurrent(lines) ==
    IF lines = <<>> THEN ""
    ELSE IF IsCurrent(lines[Len(lines)]) THEN CurrentMatch(lines[Len(lines)])
    ELSE LastCurrent(SubSeq(lines, 1, Len(lines) - 1))

get_property(c, popen, timed_out, outs) ==
    RunAndWait("get_property", c, popen, timed_out, outs, "str", <<>>,
               LastCurrent(Split(outs)))

(***************************************************************************)
(* AbstractGPhotoCamera.load_properties: every line of the output is       *)
(* classified by the regular expressions and rewritten into one document   *)
(* (yaml_string), which from_yaml then parses.                             *)
(***************************************************************************)
\* Which of the patterns a line matches, in the order of the if/elif chain.
LineClass(line) ==
    CASE line \in {"Label: ISO Speed"} -> "label"
      [] line \in {"Type: RADIO"} -> "type"
      [] line \in {"Current: 100"} -> "current"
      [] line \in {"Readonly: 0"} -> "readonly"
      [] line \in {"Choice: 0 Auto", "Choice: 1 100"} -> "choice"
      [] line \in {"Printable: 100"} -> "printable"
      [] line \in {"Help: none"} -> "help"
      [] line \in {"/main/imgsettings/iso"} -> "id"
      [] line \in {"", "END"} -> "skip"
      [] OTHER -> "unparsed"

\* int(is_choice.group(1)) and is_choice.group(2) of a Choice line.
ChoiceIndex(line) == IF line = "Choice: 0 Auto" THEN 0 ELSE 1

ChoiceValue(line) == IF line = "Choice: 0 Auto" THEN "Auto" ELSE "100"

ChoiceDigits(i) == IF i = 0 THEN "0" ELSE "1"

\* What one line adds to yaml_string.
YamlLine(line) ==
    LET class == LineClass(line)
    IN  CASE class \in {"label", "type", "current", "readonly"} ->
               "  " \o line \o "\n"
          [] class = "choice" ->
               IF ChoiceIndex(line) = 0
               THEN "  Choices:\n    " \o ChoiceDigits(ChoiceIndex(line)) \o ": "
                    \o ChoiceValue(line) \o "\n"
               ELSE "    " \o ChoiceDigits(ChoiceIndex(line)) \o ": "
                    \o ChoiceValue(line) \o "\n"
          [] class \in {"printable", "help"} -> "  " \o line \o "\n"
          [] class = "id" -> "- ID: " \o line \o "\n"
          [] class = "skip" -> ""
          [] OTHER -> line \o "\n"

RECURSIVE YamlString(_)
YamlString(lines) ==
    IF lines = <<>> THEN ""
    ELSE YamlString(SubSeq(lines, 1, Len(lines) - 1)) \o YamlLine(lines[Len(lines)])

\* load_properties (183-224): the command, its result (`lines`, line 191),
\* and the document made of the lines.
load_properties(c, popen, timed_out, outs) ==
    RunAndWait("load_properties", c, popen, timed_out, outs, "dict",
               Split(outs), YamlString(Split(outs)))

\* Lines of the output of gphoto2 --list-all-config: one of every class, and
\* the Bottom line of a RANGE property, which no pattern matches.
ConfigLines ==
    {"/main/imgsettings/iso", "Label: ISO Speed", "Type: RADIO",
     "Readonly: 0", "Current: 100", "Choice: 0 Auto", "Choice: 1 100",
     "Printable: 100", "Help: none", "END", "Bottom: 0"}

\* Every listing of at most n lines.
RECURSIVE ListingsUpTo(_)
ListingsUpTo(n) ==
    IF n = 0 THEN {<<>>}
    ELSE LET shorter == ListingsUpTo(n - 1)
         IN  shorter \cup {Append(o, l) : o \in shorter, l \in ConfigLines}

Listings == ListingsUpTo(MaxListing)

(***************************************************************************)
(* AbstractCamera, the base class: it sets the event when an exposure      *)
(* begins and clears it when the exposure is over.                         *)
(***************************************************************************)
set_is_exposing_event(c) ==
    /\ ~_is_exposing_event[c]
    /\ _is_exposing_event' = [_is_exposing_event EXCEPT ![c] = TRUE]
    /\ UNCHANGED <<_command_proc, orphans, ret>>

clear_is_exposing_event(c) ==
    /\ _is_exposing_event[c]
    /\ _is_exposing_event' = [_is_exposing_event EXCEPT ![c] = FALSE]
    /\ UNCHANGED <<_command_proc, orphans, ret>>

(***************************************************************************)
(* The processes run on their own, and end on their own.                   *)
(***************************************************************************)
ProcExit(c) ==
    /\ _command_proc[c] = "running"
    /\ _command_proc' = [_command_proc EXCEPT ![c] = "exited"]
    /\ UNCHANGED <<_is_exposing_event, orphans, ret>>

OrphanExit(c) ==
    /\ orphans[c] > 0
    /\ orphans' = [orphans EXCEPT ![c] = @ - 1]
    /\ UNCHANGED <<_command_proc, _is_exposing_event, ret>>

(***************************************************************************)
(* Camera.get_shutterspeed_index (canon.py).  A requested duration is a    *)
(* number, kept as the fraction n/d, or a string; Python compares a number *)
(* with a number by value, a string with a string by its text, finds a     *)
(* number and a string unequal, and raises TypeError when asked to order   *)
(* them.                                                                   *)
(***************************************************************************)
Num(n, d) == [kind |-> "num", n |-> n, d |-> d, s |-> ""]

Str(s) == [kind |-> "str", n |-> 0, d |-> 1, s |-> s]

\* a == b
PyEq(a, b) ==
    IF a.kind = "num" /\ b.kind = "num" THEN a.n * b.d = b.n * a.d
    ELSE IF a.kind = "str" /\ b.kind = "str" THEN a.s = b.s
    ELSE FALSE

\* a < b, for two numbers
PyLess(a, b) == a.n * b.d < b.n * a.d

\* The dict shutter_speeds: its keys and its values, in insertion order.
\* Position i of these sequences is the index i - 1 gphoto2 expects.
shutter_speeds_keys ==
    <<
       "bulb", "30", "25", "20", "15", "13", "10.3", "8", "6.3", "5", "4",
       "3.2", "2.5", "2", "1.6", "1.3", "1", "0.8", "0.6", "0.5", "0.4",
       "0.3", "1/4", "1/5", "1/6", "1/8", "1/10", "1/13", "1/15", "1/20",
       "1/25", "1/30", "1/40", "1/50", "1/60", "1/80", "1/100", "1/125",
       "1/160", "1/200", "1/250", "1/320", "1/400", "1/500", "1/640",
       "1/800", "1/1000", "1/1250", "1/1600", "1/2000", "1/2500", "1/3200",
       "1/4000"
    >>

shutter_speeds_values ==
    <<
       Str("bulb"), Num(30, 1), Num(25, 1), Num(20, 1), Num(15, 1),
       Num(13, 1), Num(103, 10), Num(8, 1), Num(63, 10), Num(5, 1),
       Num(4, 1), Num(32, 10), Num(25, 10), Num(2, 1), Num(16, 10),
       Num(13, 10), Num(1, 1), Num(8, 10), Num(6, 10), Num(5, 10),
       Num(4, 10), Num(3, 10), Num(1, 4), Num(1, 5), Num(1, 6), Num(1, 8),
       Num(1, 10), Num(1, 13), Num(1, 15), Num(1, 20), Num(1, 25),
       Num(1, 30), Num(1, 40), Num(1, 50), Num(1, 60), Num(1, 80),
       Num(1, 100), Num(1, 125), Num(1, 160), Num(1, 200), Num(1, 250),
       Num(1, 320), Num(1, 400), Num(1, 500), Num(1, 640), Num(1, 800),
       Num(1, 1000), Num(1, 1250), Num(1, 1600), Num(1, 2000),
       Num(1, 2500), Num(1, 3200), Num(1, 4000)
    >>

shutter_speeds == [keys |-> shutter_speeds_keys, values |-> shutter_speeds_values]

\* The table of the specification's examples: [bulb, 30, 8, 1, 1/1000].
example_speeds ==
    [keys |-> <<"bulb", "30", "8", "1", "1/1000">>,
     values |-> <<Str("bulb"), Num(30, 1), Num(8, 1), Num(1, 1), Num(1, 1000)>>]

TableOf(name) == IF name = "canon" THEN shutter_speeds ELSE example_speeds

\* list.index(x): whether it finds x, and the (0-based) index of the first
\* element equal to x.
InList(list, x) == \E i \in 1..Len(list) : PyEq(list[i], x)

ListIndex(list, x) ==
    (CHOOSE i \in 1..Len(list) :
        /\ PyEq(list[i], x)
        /\ \A j \in 1..(i - 1) : ~PyEq(list[j], x)) - 1

\* list(shutter_speeds.keys()), the keys as Python strings
KeyList(tbl) == [i \in 1..Len(tbl.keys) |-> Str(tbl.keys[i])]

\* The longest of the durations after 'bulb': max where the code has min.
MaxSpeed(values) ==
    CHOOSE v \in {values[i] : i \in 2..Len(values)} :
        \A i \in 2..Len(values) : ~PyLess(v, values[i])

\* min(list(shutter_speeds.values())[1:])
MinSpeed(values) ==
    CHOOSE v \in {values[i] : i \in 2..Len(values)} :
        \A i \in 2..Len(values) : ~PyLess(values[i], v)

\* The index within values[1:], the list without 'bulb': one too small.
ValueIndexFromOne(values, secs) ==
    (CHOOSE i \in 1..(Len(values) - 1) :
        /\ PyEq(values[i + 1], secs)
        /\ \A j \in 1..(i - 1) : ~PyEq(values[j + 1], secs)) - 1

\* list(shutter_speeds.values()).index(seconds), when it finds it
ValueIndex(values, secs) == ListIndex(values, secs)

\* The test of line 205 without its "return_minimum and".
BelowMinimumAnyFlag(tbl, secs, ret_min) ==
    secs.kind = "num" /\ PyLess(secs, MinSpeed(tbl.values))

\* return_minimum and seconds < min(...), for a number (ordering a string
\* and a number raises TypeError, see get_shutterspeed_index)
BelowMinimum(tbl, secs, ret_min) ==
    ret_min /\ secs.kind = "num" /\ PyLess(secs, MinSpeed(tbl.values))

Returned(i) == [exc |-> "none", index |-> i]

Raised(e) == [exc |-> e, index |-> 0]

NotCalled == [exc |-> "not called", index |-> 0]

\* get_shutterspeed_index with "a request longer than every entry takes the
\* longest entry" in place of the final "return 0".
get_shutterspeed_index_clamped(tbl, secs, ret_min) ==
    IF InList(KeyList(tbl), secs)
    THEN Returned(ListIndex(KeyList(tbl), secs))
    ELSE IF ret_min /\ secs.kind = "str"
    THEN Raised("TypeError")
    ELSE IF BelowMinimum(tbl, secs, ret_min)
    THEN Returned(Len(tbl.keys) - 1)
    ELSE IF InList(tbl.values, secs)
    THEN Returned(ValueIndex(tbl.values, secs))
    ELSE IF secs.kind = "num" /\ PyLess(MaxSpeed(tbl.values), secs)
    THEN Returned(1)
    ELSE Returned(0)

\* The body of get_shutterspeed_index, over a table tbl.
get_shutterspeed_index(tbl, secs, ret_min) ==
    IF InList(KeyList(tbl), secs)
    THEN Returned(ListIndex(KeyList(tbl), secs))
    ELSE IF ret_min /\ secs.kind = "str"
    THEN Raised("TypeError")
    ELSE IF BelowMinimum(tbl, secs, ret_min)
    THEN Returned(Len(tbl.keys) - 1)
    ELSE IF InList(tbl.values, secs)
    THEN Returned(ValueIndex(tbl.values, secs))
    ELSE Returned(0)

(***************************************************************************)
(* The specification of the lookup: a request, then its answer.            *)
(***************************************************************************)
\* The durations asked for: every key and every value of the tables, and
\* numbers below, between and above the values.
KeysOf(tbl) == {Str(tbl.keys[i]) : i \in 1..Len(tbl.keys)}

NumbersOf(tbl) == {tbl.values[i] : i \in 2..Len(tbl.values)}

\* Durations given as strings that are keys of neither table.
OtherStrings == {Str("45"), Str("0.0001")}

OtherNumbers ==
    {Num(0, 1), Num(1, 8000), Num(1, 5000), Num(1, 3), Num(9, 1), Num(7, 2),
     Num(31, 1), Num(45, 1), Num(60, 1), Num(120, 1)}

Requests ==
    KeysOf(shutter_speeds) \cup KeysOf(example_speeds)
    \cup NumbersOf(shutter_speeds) \cup NumbersOf(example_speeds)
    \cup OtherNumbers \cup OtherStrings

ChannelIdle ==
    /\ _command_proc = [c \in Cameras |-> NoProc]
    /\ _is_exposing_event = [c \in Cameras |-> FALSE]
    /\ orphans = [c \in Cameras |-> 0]
    /\ ret = NoRet

\* No exposure has been started.
ExposureIdle ==
    /\ cmd_args = <<>>
    /\ warning = ""

\* No observation is under way.
NotObserving ==
    /\ is_observing = [c \in Cameras |-> FALSE]
    /\ done_at = [c \in Cameras |-> -1]
    /\ exptime = 1
    /\ readout_time = 1
    /\ cam_timeout = 1
    /\ blocking = FALSE
    /\ opc = "idle"
    /\ taken = <<>>
    /\ now = 0
    /\ target_time = 0
    /\ wake = 0
    /\ last_poll = -1

\* No observation is under way; one camera is registered.
ObserveIdle ==
    /\ cameras = <<"Cam00">>
    /\ NotObserving

\* The metadata of an exposure: the required keys it lacks, its status and
\* its filepath.
Meta(missing, status, filepath) ==
    [missing |-> missing, status |-> status, filepath |-> filepath]

\* process_observation has not run.
NotProcessed ==
    /\ enabled = {}
    /\ raising = "none"
    /\ ppc = "idle"
    /\ reached = <<>>
    /\ processed = <<>>
    /\ run = [c \in Cameras |-> <<>>]
    /\ db = [c \in Cameras |-> "none"]
    /\ override = [s \in {"plate_solve", "compress_fits",
                           "record_observations", "make_pretty_images",
                           "upload_image_immediately"} |-> "None"]
    /\ config = {}
    /\ entered = [c \in Cameras |-> <<>>]

\* The camera objects, and the other objects that may be handed to the
\* observatory.
CamObjects == {"camA", "camB"}

HardwareObjects == {"mountA", "domeA", "schedulerA"}

HardwareTypes == {"mount", "dome", "scheduler"}

\* The registry call made: its name, its arguments, how it ended, and the
\* insertion order of the names before it.
RegCall(op, name, obj, out, before) ==
    [op |-> op, name |-> name, obj |-> obj, out |-> out, before |-> before]

\* The cameras of the registry are the objects camA (Cam00) and camB (Cam01);
\* no primary is set, no camera is flagged, a mount and a scheduler are
\* installed; no registry call has been made.
RegistryIdle ==
    /\ registry = [n \in Cameras |->
                     IF \E i \in 1..Len(cameras) : cameras[i] = n
                     THEN (IF n = "Cam00" THEN "camA" ELSE "camB")
                     ELSE "None"]
    /\ _primary_camera = "None"
    /\ is_primary = [o \in CamObjects |-> FALSE]
    /\ hardware = [t \in HardwareTypes |->
                     IF t = "mount" THEN "mountA"
                     ELSE IF t = "scheduler" THEN "schedulerA" ELSE "None"]
    /\ rpc = RegCall("none", "none", "None", "none", <<>>)

\* No analysis has been made and no tracking update (line 72).
TrackingIdle ==
    /\ current_offset_info = 0
    /\ cycle = 0
    /\ analysis = "none"
    /\ updates = 0
    /\ mount_calls = <<>>
    /\ corrected = <<>>
    /\ tpc = [op |-> "none", out |-> "none", caught |-> "none"]

\* process_observation has not run; the exposures are fresh.
PipelineIdle ==
    /\ metadata = [c \in Cameras |-> Meta({}, "", "image.fits")]
    /\ NotProcessed

InitShutter ==
    /\ ChannelIdle
    /\ ExposureIdle
    /\ ObserveIdle
    /\ PipelineIdle
    /\ TrackingIdle
    /\ RegistryIdle
    /\ seconds \in Requests
    /\ return_minimum \in BOOLEAN
    /\ table \in {"canon", "example"}
    /\ shutterspeed_idx = NotCalled
    /\ spc = "call"

Lookup ==
    /\ spc = "call"
    /\ shutterspeed_idx' = get_shutterspeed_index(TableOf(table), seconds,
                                                  return_minimum)
    /\ spc' = "done"
    /\ UNCHANGED <<seconds, return_minimum, table>>

NextShutter ==
    Lookup /\ UNCHANGED <<chanVars, expVars, camVars, obsVars, pipeVars,
                          trkVars, regVars>>

SpecShutter == InitShutter /\ [][NextShutter]_vars

(***************************************************************************)
(* The specification of the command channel.                               *)
(***************************************************************************)
ShutterIdle ==
    /\ seconds = Num(1, 1)
    /\ return_minimum = FALSE
    /\ table = "canon"
    /\ shutterspeed_idx = NotCalled
    /\ spc = "call"

\* What the channel leaves alone.
offChannel ==
    <<shutVars, expVars, camVars, obsVars, pipeVars, trkVars, regVars>>

Init ==
    /\ ChannelIdle /\ ShutterIdle /\ ExposureIdle /\ ObserveIdle
    /\ PipelineIdle /\ TrackingIdle /\ RegistryIdle

Next ==
    \/ \E c \in Cameras : is_exposing(c) /\ UNCHANGED offChannel
    \/ \E c \in Cameras, popen \in PopenOutcomes :
         command(c, popen) /\ UNCHANGED offChannel
    \/ \E c \in Cameras, timed_out \in BOOLEAN, outs \in Outputs :
         get_command_result(c, timed_out, outs) /\ UNCHANGED offChannel
    \/ \E c \in Cameras, popen \in PopenOutcomes, timed_out \in BOOLEAN :
         set_property(c, popen, timed_out) /\ UNCHANGED offChannel
    \/ \E c \in Cameras, popen \in PopenOutcomes, timed_out \in BOOLEAN :
         set_properties(c, popen, timed_out) /\ UNCHANGED offChannel
    \/ \E c \in Cameras, popen \in PopenOutcomes, timed_out \in BOOLEAN,
          outs \in Outputs :
         get_property(c, popen, timed_out, outs) /\ UNCHANGED offChannel
    \/ \E c \in Cameras, popen \in PopenOutcomes, timed_out \in BOOLEAN,
          outs \in Outputs :
         load_properties(c, popen, timed_out, outs) /\ UNCHANGED offChannel
    \/ \E c \in Cameras : set_is_exposing_event(c) /\ UNCHANGED offChannel
    \/ \E c \in Cameras : clear_is_exposing_event(c) /\ UNCHANGED offChannel
    \/ \E c \in Cameras : ProcExit(c) /\ UNCHANGED offChannel
    \/ \E c \in Cameras : OrphanExit(c) /\ UNCHANGED offChannel

Spec == Init /\ [][Next]_vars

(***************************************************************************)
(* Camera._start_exposure (canon.py): looks the duration up with           *)
(* return_minimum=True, builds the gphoto2 arguments and hands them to     *)
(* command.  InvalidCommand is caught and logged; anything else command    *)
(* raises leaves _start_exposure.  The duration is a number (it comes out  *)
(* of get_quantity_value); iso and filename are fixed.                     *)
(***************************************************************************)
\* The arguments every exposure begins with (lines 103-108).
CommonArgs(idx) ==
    <<"--set-config", "iso=100", "--filename", "image.cr2",
      "--set-config-index", "shutterspeed=" \o ToString(idx),
      "--wait-event=1s">>

\* int(seconds), for a duration that is not negative.
IntSeconds(secs) == secs.n \div secs.d

\* The bulb arguments (lines 112-117): open the shutter, hold, close, download.
BulbArgs(secs) ==
    <<"--set-config-index", "eosremoterelease=2",
      "--wait-event=" \o ToString(IntSeconds(secs)) \o "s",
      "--set-config-index", "eosremoterelease=4",
      "--wait-event-and-download=2s">>

\* The arguments of a known shutter speed (lines 120-122).
TimedArgs == <<"--capture-image-and-download">>

\* The choice of line 110 made on "index 1" instead of "index 0".
ExposureArgs_bulb_on_one(idx, secs) ==
    CommonArgs(idx) \o (IF idx = 1 THEN BulbArgs(secs) ELSE TimedArgs)

ExposureArgs(idx, secs) ==
    CommonArgs(idx) \o (IF idx = 0 THEN BulbArgs(secs) ELSE TimedArgs)

\* The durations exposures are asked for: longer than every entry, entries of
\* the table, between two entries, and shorter than every entry.
ExposureTimes ==
    {Num(120, 1), Num(45, 1), Num(30, 1), Num(1, 1), Num(7, 10),
     Num(1, 4000), Num(1, 10000)}

\* Line 101, get_shutterspeed_index(seconds=seconds, return_minimum=True), for
\* each of the durations.
ResolvedIndex ==
    [secs \in ExposureTimes |->
        get_shutterspeed_index(shutter_speeds, secs, TRUE)]

\* The value _start_exposure returns: the tuple readout_args, or None.
_start_exposure(c, secs, popen) ==
    LET idx == ResolvedIndex[secs]
    IN
    /\ idx.exc = "none"
    /\ seconds' = secs
    /\ return_minimum' = TRUE
    /\ table' = "canon"
    /\ shutterspeed_idx' = idx
    /\ spc' = "done"
    /\ cmd_args' = ExposureArgs(idx.index, secs)
    /\ _is_exposing_event' = [_is_exposing_event EXCEPT ![c] = EventAfterPoll(c)]
    /\ IF IsExposingValue(c)
       THEN /\ warning' = "Command already running"
            /\ ret' = Ret("_start_exposure", c, "ok", "None", <<>>, "",
                          _command_proc[c], "none", FALSE)
            /\ UNCHANGED <<_command_proc, orphans>>
       ELSE IF popen = "ok"
       THEN /\ OrphansAfterSpawn(c) <= MaxOrphans
            /\ _command_proc' = [_command_proc EXCEPT ![c] = NewProc]
            /\ orphans' = [orphans EXCEPT ![c] = OrphansAfterSpawn(c)]
            /\ warning' = ""
            /\ ret' = Ret("_start_exposure", c, "ok", "tuple", <<>>, "",
                          _command_proc[c], "none", FALSE)
       ELSE IF CommandError(popen) = "InvalidCommand"
       THEN /\ warning' = popen
            /\ ret' = Ret("_start_exposure", c, "ok", "None", <<>>, "",
                          _command_proc[c], "none", FALSE)
            /\ UNCHANGED <<_command_proc, orphans>>
       ELSE /\ warning' = ""
            /\ ret' = Ret("_start_exposure", c, CommandError(popen), "None",
                          <<>>, popen, _command_proc[c], "none", FALSE)
            /\ UNCHANGED <<_command_proc, orphans>>

\* Exposures, the waits for them, and the processes and the event beside them.
NextExposure ==
    \/ \E c \in Cameras, secs \in ExposureTimes, popen \in PopenOutcomes :
         _start_exposure(c, secs, popen)
           /\ UNCHANGED <<camVars, obsVars, pipeVars, trkVars, regVars>>
    \/ \E c \in Cameras, timed_out \in BOOLEAN :
         get_command_result(c, timed_out, <<>>)
           /\ UNCHANGED offChannel
    \/ \E c \in Cameras : set_is_exposing_event(c) /\ UNCHANGED offChannel
    \/ \E c \in Cameras : clear_is_exposing_event(c) /\ UNCHANGED offChannel
    \/ \E c \in Cameras : ProcExit(c) /\ UNCHANGED offChannel
    \/ \E c \in Cameras : OrphanExit(c) /\ UNCHANGED offChannel

SpecExposure == Init /\ [][NextExposure]_vars

(***************************************************************************)
(* load_properties on the listings gphoto2 --list-all-config may write.    *)
(***************************************************************************)
NextListing ==
    \E c \in Cameras, popen \in PopenOutcomes, timed_out \in BOOLEAN,
       outs \in Listings :
        load_properties(c, popen, timed_out, outs) /\ UNCHANGED offChannel

SpecListing == Init /\ [][NextListing]_vars

(***************************************************************************)
(* Observatory.observe (observatory.py).  It calls take_observation on     *)
(* every camera of the registry and, when blocking, waits on a             *)
(* CountdownTimer: one sleep of exptime + readout_time, then a look at     *)
(* every camera each readout_time until all are done or the timer has      *)
(* expired.  Time is counted in ticks of half a second.  The cameras and   *)
(* their gphoto2 processes finish on their own while observe sleeps.       *)
(***************************************************************************)
\* The registries observe is run on: the cameras in their insertion order.
Registries == {<<"Cam00">>, <<"Cam00", "Cam01">>, <<"Cam01", "Cam00">>}

\* current_observation.exptime and the readout_time and timeout of the
\* primary camera: 2 s, 1 s and 5 s, and shorter ones.
Timings ==
    {[exptime |-> 4, readout_time |-> 2, timeout |-> 10],
     [exptime |-> 1, readout_time |-> 1, timeout |-> 3],
     [exptime |-> 2, readout_time |-> 3, timeout |-> 2]}

InitObserve ==
    /\ ChannelIdle
    /\ ShutterIdle
    /\ ExposureIdle
    /\ PipelineIdle
    /\ TrackingIdle
    /\ cameras \in Registries
    /\ RegistryIdle
    /\ \E t \in Timings :
         /\ exptime = t.exptime
         /\ readout_time = t.readout_time
         /\ cam_timeout = t.timeout
    /\ is_observing = [c \in Cameras |-> FALSE]
    /\ done_at = [c \in Cameras |-> -1]
    /\ blocking = FALSE
    /\ opc = "idle"
    /\ taken = <<>>
    /\ now = 0
    /\ target_time = 0
    /\ wake = 0
    /\ last_poll = -1

\* self.cameras.values(), as a set
Registered == {cameras[i] : i \in 1..Len(cameras)}

\* The for loop of lines 384-386 has no try: it ends at the first camera whose
\* take_observation raises.  fails: the cameras whose take_observation raises.
FirstFailure(fails) ==
    IF \E i \in 1..Len(cameras) : cameras[i] \in fails
    THEN CHOOSE i \in 1..Len(cameras) :
            /\ cameras[i] \in fails
            /\ \A j \in 1..(i - 1) : cameras[j] \notin fails
    ELSE 0

\* The cameras take_observation is called on, in the order of the calls.
Taken(fails) ==
    IF FirstFailure(fails) = 0 THEN cameras
    ELSE SubSeq(cameras, 1, FirstFailure(fails))

\* The cameras whose take_observation returned: they are observing.
Started(fails) == {Taken(fails)[i] : i \in 1..Len(Taken(fails))} \ fails

\* timeout = exptime + readout_time + cam.timeout (line 392)
timeout == exptime + readout_time + cam_timeout

\* CountdownTimer.time_left() and CountdownTimer.expired()
time_left == IF target_time > now THEN target_time - now ELSE 0

expired == time_left = 0

\* CountdownTimer.sleep(max_sleep): how long it sleeps with `remaining` left.
SleepTime(max_sleep, remaining) ==
    IF max_sleep > 0 /\ max_sleep < remaining THEN max_sleep ELSE remaining

\* AbstractCamera.take_observation on the cameras of `started`: each begins to
\* observe and its gphoto2 process runs.
take_observation(started) ==
    /\ is_observing' = [c \in Cameras |->
                           IF c \in started THEN TRUE ELSE is_observing[c]]
    /\ done_at' = [c \in Cameras |-> IF c \in started THEN -1 ELSE done_at[c]]
    /\ _is_exposing_event' = [c \in Cameras |->
                           IF c \in started THEN TRUE ELSE _is_exposing_event[c]]
    /\ _command_proc' = [c \in Cameras |->
                           IF c \in started THEN NewProc ELSE _command_proc[c]]
    /\ UNCHANGED <<orphans, ret>>

\* observe, up to its first sleep.
observe(block, fails) ==
    /\ opc = "idle"
    /\ fails \subseteq Registered
    /\ blocking' = block
    /\ taken' = Taken(fails)
    /\ take_observation(Started(fails))
    /\ IF FirstFailure(fails) # 0
       THEN /\ opc' = "raised"
            /\ UNCHANGED <<target_time, wake>>
       ELSE IF ~block
       THEN /\ opc' = "returned"
            /\ UNCHANGED <<target_time, wake>>
       ELSE /\ target_time' = now + timeout
            /\ wake' = now + SleepTime(exptime + readout_time, timeout)
            /\ opc' = "sleeping"
    /\ UNCHANGED <<cameras, exptime, readout_time, cam_timeout, now, last_poll>>

\* Time passes while observe sleeps, and it may pass between the look that
\* found every camera done (399-402) and the test of line 406.
Tick ==
    /\ \/ opc = "sleeping" /\ now < wake
       \/ opc = "broke" /\ now = last_poll
    /\ now' = now + 1
    /\ UNCHANGED <<cameras, exptime, readout_time, cam_timeout, blocking, opc,
                   taken, target_time, wake, last_poll>>

\* all(done_observing), line 399-400
AllDone == \A c \in Registered : ~is_observing[c]

\* observe_wake with a cleanup before the TimeoutError: the processes of the
\* cameras are killed and their handles cleared.
observe_wake_cleanup ==
    /\ opc = "sleeping"
    /\ now = wake
    /\ IF expired
       THEN /\ opc' = "TimeoutError"
            /\ _command_proc' = [c \in Cameras |-> NoProc]
            /\ UNCHANGED <<wake, last_poll, _is_exposing_event, orphans, ret>>
       ELSE /\ last_poll' = now
            /\ IF AllDone
               THEN /\ opc' = "broke"
                    /\ UNCHANGED wake
               ELSE /\ wake' = now + SleepTime(readout_time, time_left)
                    /\ UNCHANGED opc
            /\ UNCHANGED chanVars
    /\ UNCHANGED <<cameras, exptime, readout_time, cam_timeout, blocking,
                   taken, now, target_time>>
    /\ UNCHANGED camVars

\* observe when a sleep is over: the test of the while loop (line 398), the
\* look at the cameras (399-402) and the next sleep (404) or the break
\* (402); when the timer has expired, the end of the loop and TimeoutError
\* (406-407).
observe_wake ==
    /\ opc = "sleeping"
    /\ now = wake
    /\ IF expired
       THEN /\ opc' = "TimeoutError"
            /\ UNCHANGED <<wake, last_poll>>
       ELSE /\ last_poll' = now
            /\ IF AllDone
               THEN /\ opc' = "broke"
                    /\ UNCHANGED wake
               ELSE /\ wake' = now + SleepTime(readout_time, time_left)
                    /\ UNCHANGED opc
    /\ UNCHANGED <<cameras, exptime, readout_time, cam_timeout, blocking,
                   taken, now, target_time>>
    /\ UNCHANGED <<chanVars, camVars>>

\* observe after the break: the test of the timer (406) and TimeoutError
\* (407), or the return.
observe_check ==
    /\ opc = "broke"
    /\ opc' = IF expired THEN "TimeoutError" ELSE "returned"
    /\ UNCHANGED <<cameras, exptime, readout_time, cam_timeout, blocking,
                   taken, now, target_time, wake, last_poll>>
    /\ UNCHANGED <<chanVars, camVars>>

\* A camera ends its observation once its process has exited.
CameraDone(c) ==
    /\ is_observing[c]
    /\ _command_proc[c] # "running"
    /\ is_observing' = [is_observing EXCEPT ![c] = FALSE]
    /\ done_at' = [done_at EXCEPT ![c] = now]
    /\ _is_exposing_event' = [_is_exposing_event EXCEPT ![c] = FALSE]
    /\ UNCHANGED <<_command_proc, orphans, ret>>

NextObserve ==
    \/ \E block \in BOOLEAN, fails \in SUBSET Cameras :
         observe(block, fails)
           /\ UNCHANGED <<shutVars, expVars, pipeVars, trkVars, regVars>>
    \/ Tick /\ UNCHANGED <<chanVars, shutVars, expVars, camVars, pipeVars,
                          trkVars, regVars>>
    \/ observe_wake
         /\ UNCHANGED <<shutVars, expVars, pipeVars, trkVars, regVars>>
    \/ observe_check
         /\ UNCHANGED <<shutVars, expVars, pipeVars, trkVars, regVars>>
    \/ \E c \in Cameras : ProcExit(c) /\ UNCHANGED offChannel
    \/ \E c \in Cameras : CameraDone(c)
           /\ UNCHANGED <<shutVars, expVars, obsVars, pipeVars, trkVars,
                          regVars>>

SpecObserve == InitObserve /\ [][NextObserve]_vars

(***************************************************************************)
(* Observatory.process_observation (observatory.py): for the latest        *)
(* exposure of every camera it reads the required metadata, returns when   *)
(* the exposure is complete, and runs the steps that are switched on.  A   *)
(* step is named by its argument.  An exposure is marked complete by the   *)
(* persist step, which comes after the required keys have been read, so a  *)
(* complete exposure has them all.                                         *)
(***************************************************************************)
Steps ==
    <<"plate_solve", "compress_fits", "record_observations",
      "make_pretty_images", "upload_image_immediately">>

StepSet == {Steps[i] : i \in 1..Len(Steps)}

\* The keys read at lines 436-439, without exptime.
RequiredKeys_no_exptime == {"image_id", "sequence_id", "filepath"}

\* The keys read at lines 436-439.
RequiredKeys == {"image_id", "sequence_id", "filepath", "exptime"}

\* The metadata an exposure may have when process_observation is called.
Metadatas ==
    {Meta({}, "", "image.fits"), Meta({}, "complete", "image.fits")}
    \cup {Meta({k}, "", "image.fits") :
            k \in {"image_id", "sequence_id", "filepath", "exptime"}}

\* One of the reads of lines 436-439 raises KeyError.
KeyMissing(m) == m.missing \cap RequiredKeys # {}

\* The local state of the loop body: the dict `metadata` names (the
\* exposure's own, or the one get_solve_field returned), the exposure's own
\* metadata, the steps that ran, the dict given to the db, and whether an
\* exception has left the body.
Begin(m) ==
    [out |-> "running", bound |-> "exposure", meta |-> m, run |-> <<>>,
     db |-> "none", entered |-> <<>>]

\* Lines 449-456: the solve is in a try; it rebinds `metadata`.
Solve(st, en, f) ==
    IF st.out # "running" \/ "plate_solve" \notin en THEN st
    ELSE LET begun == [st EXCEPT !.entered = Append(@, "plate_solve")]
         IN  IF f = "plate_solve" THEN begun
             ELSE [begun EXCEPT !.bound = "solved",
                             !.run = Append(@, "plate_solve")]

\* Lines 458-463: fpack is in no try; then metadata['filepath'] is set.
Compress(st, en, f) ==
    IF st.out # "running" \/ "compress_fits" \notin en THEN st
    ELSE LET begun == [st EXCEPT !.entered = Append(@, "compress_fits")]
         IN  IF f = "compress_fits" THEN [begun EXCEPT !.out = "raised"]
             ELSE [begun EXCEPT !.meta.filepath =
                                 IF st.bound = "exposure" THEN "image.fits.fz"
                                 ELSE @,
                             !.run = Append(@, "compress_fits")]

\* Lines 465-469: metadata['status'] is set, then db.insert_current, in no try.
Persist(st, en, f) ==
    IF st.out # "running" \/ "record_observations" \notin en THEN st
    ELSE LET marked == [st EXCEPT !.meta.status =
                           IF st.bound = "exposure" THEN "complete" ELSE @,
                                  !.entered =
                                      Append(@, "record_observations")]
         IN  IF f = "record_observations"
             THEN [marked EXCEPT !.out = "raised"]
             ELSE [marked EXCEPT !.db = st.bound,
                                 !.run = Append(@, "record_observations")]

\* Lines 471-489: in a try; metadata['is_primary'] is read, a key the dict of
\* get_solve_field does not have.
Pretty(st, en, f) ==
    IF st.out # "running" \/ "make_pretty_images" \notin en THEN st
    ELSE LET begun == [st EXCEPT !.entered = Append(@, "make_pretty_images")]
         IN  IF f = "make_pretty_images" \/ st.bound = "solved" THEN begun
             ELSE [begun EXCEPT !.run = Append(@, "make_pretty_images")]

\* Lines 491-497: in a try.
Upload(st, en, f) ==
    IF st.out # "running" \/ "upload_image_immediately" \notin en THEN st
    ELSE LET begun == [st EXCEPT !.entered =
                                  Append(@, "upload_image_immediately")]
         IN  IF f = "upload_image_immediately" THEN begun
             ELSE [begun EXCEPT !.run = Append(@, "upload_image_immediately")]

\* Lines 449-497 for one exposure.
ProcessExposure(m, en, f) ==
    Upload(Pretty(Persist(Compress(Solve(Begin(m), en, f), en, f), en, f),
                  en, f), en, f)

\* What the loop over the cameras has done so far.
LoopStart ==
    [metadata |-> metadata,
     run |-> [c \in Cameras |-> <<>>],
     db |-> [c \in Cameras |-> "none"],
     entered |-> [c \in Cameras |-> <<>>],
     reached |-> <<>>,
     processed |-> <<>>,
     out |-> "running"]

\* The loop without lines 445-447: a complete exposure is processed again.
RECURSIVE Loop_complete_unchecked(_, _, _, _)
Loop_complete_unchecked(i, acc, en, f) ==
    IF i > Len(cameras) THEN [acc EXCEPT !.out = "returned"]
    ELSE LET c == cameras[i]
             m == acc.metadata[c]
             here == [acc EXCEPT !.reached = Append(@, c)]
         IN  IF KeyMissing(m) THEN [here EXCEPT !.out = "PanError"]
             ELSE LET st == ProcessExposure(m, en, f)
                      after == [here EXCEPT !.metadata[c] = st.meta,
                                            !.run[c] = st.run,
                                            !.db[c] = st.db,
                                            !.entered[c] = st.entered,
                                            !.processed = Append(@, c)]
                  IN  IF st.out = "raised" THEN [after EXCEPT !.out = "raised"]
                      ELSE Loop_complete_unchecked(i + 1, after, en, f)

\* The loop of lines 431-497 from the i-th camera on.  KeyError becomes
\* PanError and leaves the function (440-441); a complete exposure makes the
\* function return (445-447); an exception no try catches leaves it too.
RECURSIVE Loop(_, _, _, _)
Loop(i, acc, en, f) ==
    IF i > Len(cameras) THEN [acc EXCEPT !.out = "returned"]
    ELSE LET c == cameras[i]
             m == acc.metadata[c]
             here == [acc EXCEPT !.reached = Append(@, c)]
         IN  IF KeyMissing(m) THEN [here EXCEPT !.out = "PanError"]
             ELSE IF m.status = "complete" THEN [here EXCEPT !.out = "returned"]
             ELSE LET st == ProcessExposure(m, en, f)
                      after == [here EXCEPT !.metadata[c] = st.meta,
                                            !.run[c] = st.run,
                                            !.db[c] = st.db,
                                            !.entered[c] = st.entered,
                                            !.processed = Append(@, c)]
                  IN  IF st.out = "raised" THEN [after EXCEPT !.out = "raised"]
                      ELSE Loop(i + 1, after, en, f)

\* What the arguments of process_observation may be: True, False or None
\* for every step.
Overrides == [StepSet -> {"True", "False", "None"}]

NoOverride == [s \in StepSet |-> "None"]

\* The conditions of lines 449, 458, 465, 471 and 491,
\* `<argument> or self.get_config('observations.<step>', default=False)`:
\* the steps for which the argument is True or the key is true.
StepsEnabled(ov, cfg) == {s \in StepSet : ov[s] = "True" \/ s \in cfg}

\* process_observation called with the arguments ov while the keys of cfg
\* are true in the configuration, where the step f (one of those switched
\* on, or "none") raises when it runs.
process_observation(ov, cfg, f) ==
    LET en == StepsEnabled(ov, cfg)
    IN  /\ f \in en \cup {"none"}
        /\ LET r == Loop(1, LoopStart, en, f)
           IN  /\ metadata' = r.metadata
               /\ run' = r.run
               /\ db' = r.db
               /\ entered' = r.entered
               /\ reached' = r.reached
               /\ processed' = r.processed
               /\ ppc' = r.out
        /\ enabled' = en
        /\ raising' = f
        /\ override' = ov
        /\ config' = cfg

InitProcess ==
    /\ ChannelIdle
    /\ ShutterIdle
    /\ ExposureIdle
    /\ NotObserving
    /\ NotProcessed
    /\ TrackingIdle
    /\ cameras \in Registries
    /\ RegistryIdle
    /\ metadata \in [Cameras -> Metadatas]
    /\ \A c \in Cameras \ Registered : metadata[c] = Meta({}, "", "image.fits")

\* The calls leave the arguments at None: the configuration alone switches
\* the steps on.
NextProcess ==
    \E cfg \in SUBSET StepSet, f \in StepSet \cup {"none"} :
        process_observation(NoOverride, cfg, f)
          /\ UNCHANGED <<chanVars, shutVars, expVars, camVars, obsVars,
                         trkVars, regVars>>

SpecProcess == InitProcess /\ [][NextProcess]_vars

(***************************************************************************)
(* process_observation on one fresh exposure with every combination of     *)
(* arguments and configuration keys; no step raises.                       *)
(***************************************************************************)
InitToggles ==
    /\ ChannelIdle
    /\ ShutterIdle
    /\ ExposureIdle
    /\ ObserveIdle
    /\ TrackingIdle
    /\ RegistryIdle
    /\ metadata = [c \in Cameras |-> Meta({}, "", "image.fits")]
    /\ enabled = {}
    /\ raising = "none"
    /\ ppc = "idle"
    /\ reached = <<>>
    /\ processed = <<>>
    /\ run = [c \in Cameras |-> <<>>]
    /\ db = [c \in Cameras |-> "none"]
    /\ entered = [c \in Cameras |-> <<>>]
    /\ override \in Overrides
    /\ config \in SUBSET StepSet

NextToggles ==
    process_observation(override, config, "none")
      /\ UNCHANGED <<chanVars, shutVars, expVars, camVars, obsVars,
                     trkVars, regVars>>

SpecToggles == InitToggles /\ [][NextToggles]_vars

(***************************************************************************)
(* Observatory.analyze_recent and Observatory.update_tracking              *)
(* (observatory.py).  analyze_recent solves the last exposure and stores   *)
(* its offset from the pointing image in current_offset_info;              *)
(* update_tracking hands the stored offset to the mount.  An offset is     *)
(* named by the number of the analyze_recent call that computed it.        *)
(***************************************************************************)
\* How an analyze_recent call goes: all of lines 511-535 succeed; no
\* observation to take the pointing image from (511, outside the try);
\* solve_field raises SolveError (519); compute_offset raises (525);
\* db.insert_current raises (529-535).
AnalysisOutcomes ==
    {"ok", "pointing_image", "SolveError", "compute_offset", "insert_current"}

\* What mount.correct_tracking does: it applies the correction, or raises
\* error.Timeout.
CorrectOutcomes == {"ok", "Timeout"}

\* The call made: its name, how it ended, and the exception it caught.
Call(op, out, caught) == [op |-> op, out |-> out, caught |-> caught]

\* analyze_recent without line 509: the stored offset is kept until a new
\* one is computed.
analyze_recent_keep(outcome) ==
    /\ cycle < MaxCycles
    /\ cycle' = cycle + 1
    /\ current_offset_info' =
           IF outcome \in {"ok", "insert_current"} THEN cycle + 1
           ELSE current_offset_info
    /\ analysis' = outcome
    /\ updates' = 0
    /\ tpc' = Call("analyze_recent",
                   IF outcome = "pointing_image" THEN "raised" ELSE "returned",
                   IF outcome \in {"ok", "pointing_image"} THEN "none"
                   ELSE outcome)
    /\ UNCHANGED <<mount_calls, corrected>>

\* analyze_recent: line 509 clears the stored offset, line 525 stores the
\* new one when the solve and compute_offset succeed; the exceptions of
\* lines 515-535 are caught (537-540).
analyze_recent(outcome) ==
    /\ cycle < MaxCycles
    /\ cycle' = cycle + 1
    /\ current_offset_info' =
           IF outcome \in {"ok", "insert_current"} THEN cycle + 1 ELSE 0
    /\ analysis' = outcome
    /\ updates' = 0
    /\ tpc' = Call("analyze_recent",
                   IF outcome = "pointing_image" THEN "raised" ELSE "returned",
                   IF outcome \in {"ok", "pointing_image"} THEN "none"
                   ELSE outcome)
    /\ UNCHANGED <<mount_calls, corrected>>

\* update_tracking without the except of lines 613-614.
update_tracking_uncaught(correct) ==
    /\ updates < MaxUpdates
    /\ updates' = updates + 1
    /\ IF current_offset_info = 0
       THEN /\ mount_calls' = <<>>
            /\ corrected' = corrected
            /\ tpc' = Call("update_tracking", "returned", "none")
       ELSE /\ mount_calls' = <<"get_tracking_correction", "correct_tracking">>
            /\ corrected' = Append(corrected, current_offset_info)
            /\ tpc' = Call("update_tracking",
                           IF correct = "Timeout" THEN "raised" ELSE "returned",
                           "none")
    /\ UNCHANGED <<current_offset_info, cycle, analysis>>

\* update_tracking: nothing when no offset is stored (592); else
\* mount.get_tracking_correction (605-609) and mount.correct_tracking
\* (612), whose Timeout is caught (613-614).  The stored offset is left as
\* it is.
update_tracking(correct) ==
    /\ updates < MaxUpdates
    /\ updates' = updates + 1
    /\ IF current_offset_info = 0
       THEN /\ mount_calls' = <<>>
            /\ corrected' = corrected
            /\ tpc' = Call("update_tracking", "returned", "none")
       ELSE /\ mount_calls' = <<"get_tracking_correction", "correct_tracking">>
            /\ corrected' = Append(corrected, current_offset_info)
            /\ tpc' = Call("update_tracking", "returned",
                           IF correct = "Timeout" THEN "Timeout" ELSE "none")
    /\ UNCHANGED <<current_offset_info, cycle, analysis>>

InitTracking ==
    /\ ChannelIdle /\ ShutterIdle /\ ExposureIdle /\ ObserveIdle
    /\ PipelineIdle /\ TrackingIdle /\ RegistryIdle

NextTracking ==
    \/ \E outcome \in AnalysisOutcomes :
         analyze_recent(outcome)
           /\ UNCHANGED <<chanVars, shutVars, expVars, camVars, obsVars,
                          pipeVars, regVars>>
    \/ \E correct \in CorrectOutcomes :
         update_tracking(correct)
           /\ UNCHANGED <<chanVars, shutVars, expVars, camVars, obsVars,
                          pipeVars, regVars>>

SpecTracking == InitTracking /\ [][NextTracking]_vars

(***************************************************************************)
(* The devices of the Observatory (observatory.py): the cameras, kept by   *)
(* name in an OrderedDict, the primary camera, and the mount, the dome and *)
(* the scheduler.                                                          *)
(***************************************************************************)
\* isinstance(obj, hw_class) for AbstractMount, AbstractDome, BaseScheduler.
IsInstance(obj, hw_type) ==
    \/ hw_type = "mount" /\ obj = "mountA"
    \/ hw_type = "dome" /\ obj = "domeA"
    \/ hw_type = "scheduler" /\ obj = "schedulerA"

\* A sequence without the element n.
Without(seq, n) == SelectSeq(seq, LAMBDA x : x # n)

\* The keys of the OrderedDict after `self.cameras[cam_name] = camera` when
\* the assignment moves the name to the end.
KeysAfterSet_to_end(name) == Append(Without(cameras, name), name)

\* The keys of the OrderedDict after `self.cameras[cam_name] = camera`
\* (line 206): a name that is there keeps its place, a new one goes last.
KeysAfterSet(name) ==
    IF \E i \in 1..Len(cameras) : cameras[i] = name THEN cameras
    ELSE Append(cameras, name)

\* add_camera (193-208): the assertion, the assignment, and the primary
\* camera setter (136-139) when the camera is flagged.
add_camera(name, obj) ==
    IF obj \notin CamObjects
    THEN /\ rpc' = RegCall("add_camera", name, obj, "AssertionError", cameras)
         /\ UNCHANGED <<cameras, registry, _primary_camera, is_primary,
                        hardware>>
    ELSE /\ cameras' = KeysAfterSet(name)
         /\ registry' = [registry EXCEPT ![name] = obj]
         /\ _primary_camera' = IF is_primary[obj] THEN obj ELSE _primary_camera
         /\ rpc' = RegCall("add_camera", name, obj, "returned", cameras)
         /\ UNCHANGED <<is_primary, hardware>>

\* remove_camera (210-223): `del self.cameras[cam_name]`.
remove_camera(name) ==
    IF registry[name] = "None"
    THEN /\ rpc' = RegCall("remove_camera", name, "None", "KeyError", cameras)
         /\ UNCHANGED <<cameras, registry, _primary_camera, is_primary,
                        hardware>>
    ELSE /\ cameras' = Without(cameras, name)
         /\ registry' = [registry EXCEPT ![name] = "None"]
         /\ rpc' = RegCall("remove_camera", name, "None", "returned", cameras)
         /\ UNCHANGED <<_primary_camera, is_primary, hardware>>

\* The primary_camera setter (136-139) called with a camera.
set_primary_camera(obj) ==
    /\ is_primary' = [is_primary EXCEPT ![obj] = TRUE]
    /\ _primary_camera' = obj
    /\ rpc' = RegCall("primary_camera.setter", "none", obj, "returned",
                      cameras)
    /\ UNCHANGED <<cameras, registry, hardware>>

\* A primary_camera that is always the first camera of the registry.
primary_camera_first ==
    IF Len(cameras) > 0 THEN registry[cameras[1]] ELSE "None"

\* The primary_camera property (120-134): the first camera of the registry
\* when no primary is set and there are cameras, else _primary_camera.
primary_camera ==
    IF _primary_camera = "None" /\ Len(cameras) > 0
    THEN registry[cameras[1]]
    ELSE _primary_camera

\* A read of the primary_camera property.
get_primary_camera ==
    /\ rpc' = RegCall("primary_camera", "none", primary_camera, "returned",
                      cameras)
    /\ UNCHANGED <<cameras, registry, _primary_camera, is_primary, hardware>>

\* _set_hardware that installs whatever it is given.
_set_hardware_unchecked(new_hardware, hw_type) ==
    /\ hardware' = [hardware EXCEPT ![hw_type] = new_hardware]
    /\ rpc' = RegCall("set_" \o hw_type, "none", new_hardware, "returned",
                      cameras)
    /\ UNCHANGED <<cameras, registry, _primary_camera, is_primary>>

\* _set_hardware (246-258), reached through set_mount, set_dome and
\* set_scheduler (225-244).
_set_hardware(new_hardware, hw_type) ==
    IF IsInstance(new_hardware, hw_type) \/ new_hardware = "None"
    THEN /\ hardware' = [hardware EXCEPT ![hw_type] = new_hardware]
         /\ rpc' = RegCall("set_" \o hw_type, "none", new_hardware,
                           "returned", cameras)
         /\ UNCHANGED <<cameras, registry, _primary_camera, is_primary>>
    ELSE /\ rpc' = RegCall("set_" \o hw_type, "none", new_hardware,
                           "TypeError", cameras)
         /\ UNCHANGED <<cameras, registry, _primary_camera, is_primary,
                        hardware>>

\* What observe keeps besides the registry.
waitVars == <<exptime, readout_time, cam_timeout, blocking, opc, taken, now,
              target_time, wake, last_poll>>

\* What the registry calls leave alone.
offRegistry ==
    <<chanVars, shutVars, expVars, camVars, waitVars, pipeVars, trkVars>>

\* The observatory after __init__ without devices (37-39, 58-60, 70-71);
\* each camera object carries the is_primary flag of its configuration.
InitRegistry ==
    /\ ChannelIdle /\ ShutterIdle /\ ExposureIdle /\ NotObserving
    /\ PipelineIdle /\ TrackingIdle
    /\ cameras = <<>>
    /\ registry = [n \in Cameras |-> "None"]
    /\ _primary_camera = "None"
    /\ is_primary \in [CamObjects -> BOOLEAN]
    /\ hardware = [t \in HardwareTypes |-> "None"]
    /\ rpc = RegCall("none", "none", "None", "none", <<>>)

NextRegistry ==
    \/ \E name \in Cameras, obj \in CamObjects \cup HardwareObjects :
         add_camera(name, obj) /\ UNCHANGED offRegistry
    \/ \E name \in Cameras : remove_camera(name) /\ UNCHANGED offRegistry
    \/ \E obj \in CamObjects : set_primary_camera(obj) /\ UNCHANGED offRegistry
    \/ get_primary_camera /\ UNCHANGED offRegistry
    \/ \E obj \in CamObjects \cup HardwareObjects \cup {"None"},
          hw_type \in HardwareTypes :
         _set_hardware(obj, hw_type) /\ UNCHANGED offRegistry

SpecRegistry == InitRegistry /\ [][NextRegistry]_vars

(***************************************************************************)
(* Properties of the command channel (checked under Spec).                 *)
(***************************************************************************)
\* The processes started by camera c that are alive.
LiveProcesses(c) ==
    (IF _command_proc[c] = "running" THEN 1 ELSE 0) + orphans[c]

\* C1: at most one external process started by a camera is alive at any
\* time: command never starts a process while an earlier one of the camera
\* has not exited.
C1_AtMostOneLiveProcess == \A c \in Cameras : LiveProcesses(c) <= 1

\* C2: is_exposing is true exactly when the camera holds an invocation whose
\* process has not yet exited: false with no invocation held, false once
\* the held process has exited.
C2_IsExposingIffProcessAlive ==
    \A c \in Cameras : IsExposingValue(c) <=> (_command_proc[c] = "running")

\* C3: a command that follows a successful command on the same camera at
\* once (no call between them, the first process still running) fails with
\* "Command already running" and leaves the first handle in place.
C3_SecondCommandRejected ==
    [][\A c \in Cameras, popen \in PopenOutcomes :
          (/\ ret.op = "command" /\ ret.cam = c /\ ret.outcome = "ok"
           /\ _command_proc[c] = "running"
           /\ command(c, popen))
          => (/\ ret'.outcome = "InvalidCommand"
              /\ ret'.val = "Command already running"
              /\ _command_proc'[c] = _command_proc[c]
              /\ orphans'[c] = orphans[c])]_vars

\* C4: get_command_result on a process that does not exit within the
\* timeout returns all the same: it is never blocked, it kills the process,
\* it returns the lines collected (a list, not None, no exception), and on
\* return the process is no longer alive and no longer held.
C4_TimeoutKillsAndReturns ==
    /\ [](\A c \in Cameras :
            _command_proc[c] = "running"
            => ENABLED get_command_result(c, TRUE, <<>>))
    /\ [][\A c \in Cameras, outs \in Outputs :
            (/\ _command_proc[c] = "running"
             /\ ret'.op = "get_command_result"
             /\ get_command_result(c, TRUE, outs))
            => (/\ ret'.outcome = "ok"
                /\ ret'.kind = "list"
                /\ ret'.lines = Split(outs)
                /\ ret'.proc = "killed"
                /\ _command_proc'[c] = NoProc
                /\ LiveProcesses(c)' = LiveProcesses(c) - 1)]_vars

C4_Witness ==
    /\ ret.op = "get_command_result"
    /\ ret.timeout
    /\ ret.proc = "killed"
    /\ ret.lines = <<"Label: ISO Speed", "">>
    /\ _command_proc[ret.cam] = NoProc

\* C5: get_command_result returns None, raising nothing and changing
\* nothing, exactly when the camera holds no invocation; a call that finds
\* an invocation returns a list and leaves the camera holding none, so the
\* call after it returns None.
C5_NoneIffNoInvocation ==
    [][\A c \in Cameras, timed_out \in BOOLEAN, outs \in Outputs :
          (ret'.op = "get_command_result"
           /\ get_command_result(c, timed_out, outs))
          => (/\ ret'.outcome = "ok"
              /\ (ret'.kind = "None") <=> (_command_proc[c] = NoProc)
              /\ _command_proc[c] = NoProc
                 => UNCHANGED <<_command_proc, _is_exposing_event, orphans>>
              /\ _command_proc[c] # NoProc
                 => (ret'.kind = "list" /\ _command_proc'[c] = NoProc)
              /\ (ret.op = "get_command_result" /\ ret.cam = c
                  /\ ret.pre # NoProc)
                 => ret'.kind = "None")]_vars

C5_Witness ==
    /\ ret.op = "get_command_result"
    /\ ret.kind = "None"
    /\ ret.pre = NoProc
    /\ ret.outcome = "ok"

\* C6: set_property, set_properties, get_property and load_properties are
\* synchronous: when one returns normally the process it started has exited
\* or been killed, the camera holds no invocation, and is_exposing is false,
\* so that the next command is not rejected as "already running".
SyncOps == {"set_property", "set_properties", "get_property", "load_properties"}

\* The step is one of these calls on camera c, and the call returns.
SyncCall(c) ==
    /\ ret'.op \in SyncOps /\ ret'.cam = c /\ ret'.outcome = "ok"
    /\ \/ ret'.op = "set_property" /\ set_property(c, "ok", ret'.timeout)
       \/ ret'.op = "set_properties" /\ set_properties(c, "ok", ret'.timeout)
       \/ /\ ret'.op = "get_property"
          /\ \E outs \in Outputs : get_property(c, "ok", ret'.timeout, outs)
       \/ /\ ret'.op = "load_properties"
          /\ \E outs \in Outputs : load_properties(c, "ok", ret'.timeout, outs)

C6_PropertyCallsSynchronous ==
    [][\A c \in Cameras :
          SyncCall(c)
          => (/\ ret'.proc \in {"exited", "killed"}
              /\ _command_proc'[c] = NoProc
              /\ LiveProcesses(c)' = orphans'[c]
              /\ ~(IsExposingValue(c))')]_vars

C6_Witness ==
    /\ ret.op = "set_property"
    /\ ret.outcome = "ok"
    /\ ret.pre = "exited"
    /\ ret.proc = "exited"
    /\ _command_proc[ret.cam] = NoProc

(***************************************************************************)
(* Properties of get_shutterspeed_index (checked under SpecShutter).       *)
(***************************************************************************)
Least(S) == CHOOSE i \in S : \A j \in S : i <= j

\* Entry i of the table has the key secs / has the value secs.
KeyMatch(tbl, i, secs) == secs.kind = "str" /\ tbl.keys[i] = secs.s

ValueMatch(tbl, i, secs) ==
    /\ secs.kind = "num"
    /\ tbl.values[i].kind = "num"
    /\ secs.n * tbl.values[i].d = tbl.values[i].n * secs.d

\* secs is shorter than every entry after 'bulb'.
ShorterThanAll(tbl, secs) ==
    /\ secs.kind = "num"
    /\ \A i \in 2..Len(tbl.values) :
          secs.n * tbl.values[i].d < tbl.values[i].n * secs.d

\* The four rules in the order the claim gives them.
FourWay(tbl, secs, ret_min) ==
    LET keyHits == {i \in 1..Len(tbl.keys) : KeyMatch(tbl, i, secs)}
        valueHits == {i \in 1..Len(tbl.values) : ValueMatch(tbl, i, secs)}
    IN  IF keyHits # {} THEN Least(keyHits) - 1
        ELSE IF valueHits # {} THEN Least(valueHits) - 1
        ELSE IF ret_min /\ ShorterThanAll(tbl, secs) THEN Len(tbl.keys) - 1
        ELSE 0

\* A requested duration: a number of seconds, or the key of an entry of the
\* table.  (Any other string is no duration; with return_minimum set the
\* lookup raises TypeError for it, and without it returns 0.)
IsDuration(tbl, secs) == secs.kind = "num" \/ secs \in KeysOf(tbl)

NoKeyString ==
    (spc = "done" /\ ~IsDuration(TableOf(table), seconds))
    => shutterspeed_idx =
         (IF return_minimum THEN Raised("TypeError") ELSE Returned(0))

\* C8: a duration that is the key or the value of an entry after bulb gets
\* that entry's index, never 0, whatever return_minimum is; 8 seconds in the
\* table [bulb, 30, 8, 1, 1/1000] gets index 2.
C8_ExactMatchNeverBulb ==
    spc = "done"
    => /\ \A i \in 2..Len(TableOf(table).keys) :
             (KeyMatch(TableOf(table), i, seconds)
              \/ ValueMatch(TableOf(table), i, seconds))
             => /\ shutterspeed_idx = Returned(i - 1)
                /\ shutterspeed_idx.index # 0
                /\ get_shutterspeed_index(TableOf(table), seconds,
                                          ~return_minimum) = shutterspeed_idx
       /\ (table = "example" /\ seconds = Num(8, 1))
             => shutterspeed_idx = Returned(2)

C8_Witness ==
    /\ spc = "done"
    /\ table = "example"
    /\ seconds = Num(8, 1)
    /\ return_minimum
    /\ shutterspeed_idx = Returned(2)

\* C9: a duration shorter than the shortest entry after bulb gets the last
\* index of the table with return_minimum set, and 0 (bulb) without it.
C9_ShorterThanShortest ==
    (spc = "done" /\ ShorterThanAll(TableOf(table), seconds))
    => shutterspeed_idx =
         Returned(IF return_minimum THEN Len(TableOf(table).keys) - 1 ELSE 0)

C9_Witness ==
    /\ spc = "done"
    /\ table = "canon"
    /\ seconds = Num(1, 8000)
    /\ return_minimum
    /\ shutterspeed_idx = Returned(52)

\* C10 as stated: in the table [bulb, 30, 8, 1, 1/1000] a request of 45
\* seconds with return_minimum set resolves to index 1, the 30 s entry.
C10_LongRequestTakesLongestEntry ==
    (spc = "done" /\ table = "example" /\ seconds = Num(45, 1)
     /\ return_minimum)
    => shutterspeed_idx = Returned(1)

\* C10 amended: in the table [bulb, 30, 8, 1, 1/1000] a request of 45
\* seconds with return_minimum set resolves to index 0, bulb: it matches no
\* entry and is not shorter than the shortest one.
C10_LongRequestTakesBulb ==
    (spc = "done" /\ table = "example" /\ seconds = Num(45, 1)
     /\ return_minimum)
    => shutterspeed_idx = Returned(0)

C10_Witness ==
    /\ spc = "done"
    /\ table = "example"
    /\ seconds = Num(45, 1)
    /\ return_minimum
    /\ shutterspeed_idx = Returned(0)

(***************************************************************************)
(* Properties of _start_exposure (checked under SpecExposure).             *)
(***************************************************************************)
\* Whether the list has the element.
Has(list, x) == \E i \in 1..Len(list) : list[i] = x

\* The index the arguments set the shutter speed to is 0.
SetsBulbIndex(args) == Has(args, "shutterspeed=0")

\* The remote release pair: press (2) and release (4).
HasRemoteRelease(args) ==
    Has(args, "eosremoterelease=2") \/ Has(args, "eosremoterelease=4")

HasCapture(args) == Has(args, "--capture-image-and-download")

\* Trigger, hold, stop, wait-and-download, in this order at the end.
IsBulbSequence(args) ==
    /\ Len(args) = 13
    /\ args[9] = "eosremoterelease=2"
    /\ args[10] = "--wait-event=" \o ToString(IntSeconds(seconds)) \o "s"
    /\ args[12] = "eosremoterelease=4"
    /\ args[13] = "--wait-event-and-download=2s"

\* Set the shutter index, then capture-and-download.
IsTimedSequence(args) ==
    /\ Len(args) = 8
    /\ args[5] = "--set-config-index"
    /\ args[6] = "shutterspeed=" \o ToString(shutterspeed_idx.index)
    /\ args[8] = "--capture-image-and-download"

\* C11: _start_exposure builds the bulb sequence exactly when the index it
\* resolved is 0 and the timed sequence otherwise, and the arguments never
\* hold both the remote release pair and capture-and-download.
C11_BulbIffIndexZero ==
    ret.op = "_start_exposure" =>
        /\ IsBulbSequence(cmd_args) <=> shutterspeed_idx = Returned(0)
        /\ IsTimedSequence(cmd_args) <=> shutterspeed_idx # Returned(0)
        /\ SetsBulbIndex(cmd_args) <=> shutterspeed_idx = Returned(0)
        /\ ~(HasRemoteRelease(cmd_args) /\ HasCapture(cmd_args))

\* A bulb exposure of 45 s on one camera, a timed one of 30 s on the other.
C11_Witness ==
    /\ ret.op = "_start_exposure"
    /\ seconds = Num(45, 1)
    /\ shutterspeed_idx = Returned(0)
    /\ IsBulbSequence(cmd_args)
    /\ cmd_args[10] = "--wait-event=45s"
    /\ _command_proc["Cam00"] = "running"

\* command rejects the arguments: a command is taken to be running, or Popen
\* cannot start the process.
Rejected(c, popen) == IsExposingValue(c) \/ popen # "ok"

\* What C12 says of one call of _start_exposure on camera c.
HandleIffDispatched(c, popen) ==
    /\ ret'.outcome = "ok"
    /\ ret'.kind = "tuple" <=> ~Rejected(c, popen)
    /\ Rejected(c, popen) =>
         /\ warning' # ""
         /\ ret'.kind = "None"
         /\ _command_proc' = _command_proc
         /\ orphans' = orphans
    /\ ~Rejected(c, popen) => _command_proc'[c] = "running"

\* C12: _start_exposure returns (filename, header) exactly when command took
\* the arguments; when command rejects them (a command already running, or
\* the process cannot be started) the failure is logged, None is returned and
\* no process is started; when it takes them the handle is returned with the
\* process still running.
C12_HandleIffDispatched ==
    [][\A popen \in PopenOutcomes :
          (ret'.op = "_start_exposure"
             /\ _start_exposure(ret'.cam, seconds', popen))
          => HandleIffDispatched(ret'.cam, popen)]_vars

\* The same for the rejections _start_exposure catches: InvalidCommand, which
\* command raises for a running command, an OSError and a ValueError.
HandleIffDispatchedOrInvalidCommand ==
    [][\A popen \in PopenOutcomes \ {"Exception"} :
          (ret'.op = "_start_exposure"
             /\ _start_exposure(ret'.cam, seconds', popen))
          => HandleIffDispatched(ret'.cam, popen)]_vars

(***************************************************************************)
(* Properties of observe (checked under SpecObserve).                      *)
(***************************************************************************)
\* C13: observe calls take_observation once on every registered camera, in
\* the order of the registry, also when the call on an earlier camera fails.
C13_EveryCameraDispatched ==
    opc # "idle" => taken = cameras

\* When no take_observation raises, every camera is called once, in order.
DispatchInOrderWithoutFailure ==
    (opc \notin {"idle", "raised"}) =>
        /\ taken = cameras
        /\ \A c \in Registered : is_observing[c] \/ done_at[c] >= 0

\* A blocking observe has ended, with a return or with TimeoutError.
WaitOver == blocking /\ opc \in {"returned", "TimeoutError"}

\* Every camera has stopped observing before the timer expires.
AllDoneWithinBudget ==
    \A c \in Registered : ~is_observing[c] /\ done_at[c] < target_time

\* C14: a blocking observe, whose budget is exptime + readout_time + timeout of
\* the primary camera, returns when all cameras have stopped observing before
\* the budget is used up, and raises TimeoutError when the budget is used up
\* with a camera still observing.
C14_ReturnsIffDoneWithinBudget ==
    /\ target_time = (IF blocking /\ opc # "raised" THEN timeout ELSE 0)
    /\ (WaitOver /\ AllDoneWithinBudget) => opc = "returned"
    /\ (WaitOver /\ ~AllDoneWithinBudget) => opc = "TimeoutError"

\* TimeoutError is raised only once the timer has expired, and only when a
\* camera was still observing at the last look or the timer expired between
\* the last look and the test of line 406.
TimeoutOnlyAfterBusyLook ==
    opc = "TimeoutError" =>
        /\ now >= timeout
        /\ \/ \E c \in Registered : is_observing[c] \/ done_at[c] >= last_poll
           \/ now = last_poll + 1 /\ last_poll < target_time

\* Exposure 2 s, readout 1 s, timeout 5 s, all cameras idle by 2.5 s: observe
\* returns at 3 s, or half a second later when it is delayed after the break.
ExampleScenarioReturns ==
    (/\ WaitOver
     /\ exptime = 4 /\ readout_time = 2 /\ cam_timeout = 10
     /\ \A c \in Registered : ~is_observing[c] /\ done_at[c] <= 5)
    => (opc = "returned" /\ now \in {6, 7})

ExampleScenarioReached ==
    /\ opc = "returned"
    /\ blocking
    /\ exptime = 4 /\ readout_time = 2 /\ cam_timeout = 10
    /\ cameras = <<"Cam00", "Cam01">>
    /\ done_at = [c \in Cameras |-> 5]
    /\ now = 6

\* When the last of the cameras stopped observing.
LastDone ==
    CHOOSE t \in {done_at[c] : c \in Registered} :
        \A c \in Registered : done_at[c] <= t

\* The later of two times.
Later(a, b) == IF a >= b THEN a ELSE b

\* No look at the cameras before exptime + readout_time has passed.
NoEarlyLook == last_poll >= 0 => last_poll >= exptime + readout_time

\* A look follows the look before it by readout_time at most.
LooksCloseTogether ==
    (last_poll' # last_poll /\ last_poll >= 0)
    => last_poll' - last_poll <= readout_time

\* C15: a blocking observe does not look at the cameras before exptime +
\* readout_time has passed, then looks every readout_time at most, and so,
\* once every camera has finished within the budget, returns within one
\* readout_time (and the half second that may pass after the break).
C15_ReturnsWithinOneReadout ==
    /\ [](NoEarlyLook)
    /\ [][LooksCloseTogether]_vars
    /\ []((WaitOver /\ AllDoneWithinBudget) =>
            /\ opc = "returned"
            /\ now <= Later(LastDone, exptime + readout_time)
                          + readout_time + 1)

\* The looks are spaced as C15 says, and a blocking observe ends, with a
\* return or with TimeoutError, within one readout_time of the last camera
\* finishing within the budget.
LooksAndLatency ==
    /\ [](NoEarlyLook)
    /\ [][LooksCloseTogether]_vars
    /\ []((WaitOver /\ AllDoneWithinBudget) =>
            now <= Later(LastDone, exptime + readout_time)
                      + readout_time + 1)

\* C16: the step of a blocking observe that ends it with TimeoutError leaves
\* every camera's process, handle and flags as they were.
C16_TimeoutLeavesProcesses ==
    [][(opc # "TimeoutError" /\ opc' = "TimeoutError") =>
          /\ _command_proc' = _command_proc
          /\ orphans' = orphans
          /\ _is_exposing_event' = _is_exposing_event
          /\ is_observing' = is_observing]_vars

\* observe has raised TimeoutError and the process of a camera still runs.
C16_Witness ==
    /\ opc = "TimeoutError"
    /\ cameras = <<"Cam00", "Cam01">>
    /\ _command_proc["Cam00"] = "running"
    /\ is_observing["Cam00"]
    /\ ~is_observing["Cam01"]

(***************************************************************************)
(* Properties of process_observation (checked under SpecProcess).          *)
(***************************************************************************)
\* The steps that ran for the exposure of camera c in the last run.
Ran(c) == {run[c][i] : i \in 1..Len(run[c])}

InSeq(seq, x) == \E i \in 1..Len(seq) : seq[i] = x

\* C17: when one of the steps switched on raises, the exception is caught,
\* every other step switched on still runs for the exposure, and
\* process_observation does not fail.
C17_StepFailureContained ==
    (ppc \notin {"idle", "PanError"} /\ raising \in enabled) =>
        /\ ppc = "returned"
        /\ \A c \in Registered :
             InSeq(processed, c) => (enabled \ {raising}) \subseteq Ran(c)

\* The same for the steps that are inside a try, solve, preview and upload
\* (the preview reads a key the solved metadata does not have, so it does not
\* run after a solve).
CaughtStepFailureContained ==
    (/\ ppc \notin {"idle", "PanError"}
     /\ raising \in {"plate_solve", "make_pretty_images",
                     "upload_image_immediately"}) =>
        /\ ppc = "returned"
        /\ \A c \in Registered :
             InSeq(processed, c) =>
                 (enabled \ {raising}) \subseteq
                     (Ran(c) \cup (IF "plate_solve" \in Ran(c)
                                   THEN {"make_pretty_images"} ELSE {}))

\* C18: for an exposure whose status is already 'complete',
\* process_observation runs no step, changes nothing in its metadata, and
\* returns without error.
C18_CompleteRunsNothing ==
    [][\A c \in Registered :
          metadata[c].status = "complete" =>
              /\ run'[c] = <<>>
              /\ db'[c] = "none"
              /\ metadata'[c] = metadata[c]
              /\ InSeq(reached', c) => ppc' = "returned"]_vars

\* A run with every step switched on that came to a complete exposure.
C18_Witness ==
    /\ ppc = "returned"
    /\ enabled = StepSet
    /\ raising = "none"
    /\ reached = <<"Cam00">>
    /\ processed = <<>>
    /\ metadata["Cam00"] = Meta({}, "complete", "image.fits")
    /\ run["Cam00"] = <<>>

\* C19: when image_id, sequence_id, filepath or exptime is missing from the
\* metadata of an exposure, process_observation raises PanError before any
\* step runs for it, whatever steps are switched on.
C19_MissingKeyRaises ==
    [][\A c \in Registered :
          metadata[c].missing # {} =>
              /\ run'[c] = <<>>
              /\ db'[c] = "none"
              /\ metadata'[c] = metadata[c]
              /\ InSeq(reached', c) => ppc' = "PanError"]_vars

\* A run with every step switched on whose exposure lacks exptime.
C19_Witness ==
    /\ ppc = "PanError"
    /\ enabled = StepSet
    /\ reached = <<"Cam00">>
    /\ metadata["Cam00"].missing = {"exptime"}
    /\ run["Cam00"] = <<>>

\* C20: metadata missing from the exposure of one camera does not keep the
\* exposures of the other cameras from being processed.
C20_OtherCamerasProcessed ==
    [][ppc' = "PanError" =>
          \A c \in Registered :
              (metadata[c].missing = {} /\ metadata[c].status # "complete")
              => InSeq(processed', c)]_vars


(***************************************************************************)
(* Properties of the step toggles (checked under SpecToggles).             *)
(***************************************************************************)
\* The steps, in their fixed order, that are in S.
Restrict(S) == SelectSeq(Steps, LAMBDA x : x \in S)

\* The steps switched on when an argument that is given decides alone.
Wanted(ov, cfg) ==
    {x \in StepSet : ov[x] = "True" \/ (ov[x] = "None" /\ x \in cfg)}

\* C21: for an exposure that is not complete and has all its metadata, the
\* steps process_observation executes are solve, compress, persist, preview,
\* upload in this order, restricted to the steps switched on; an argument
\* that is True switches its step on, one that is False switches it off, and
\* the configuration key decides only when the argument is None.
C21_StepsFollowOverride ==
    [][\A c \in Registered :
          (metadata[c].status # "complete" /\ metadata[c].missing = {}) =>
              entered'[c] = Restrict(Wanted(override', config'))]_vars

\* What the code does: the steps are executed in the fixed order, and a step
\* is executed when its argument is True or its configuration key is true.
StepsFollowArgumentOrConfig ==
    [][\A c \in Registered :
          (metadata[c].status # "complete" /\ metadata[c].missing = {}) =>
              entered'[c] = Restrict({x \in StepSet :
                                         override'[x] = "True"
                                         \/ x \in config'})]_vars

\* A call with compress_fits=False while observations.compress_fits is true
\* that compressed the exposure.
FalseOverrideStepExecuted ==
    /\ ppc = "returned"
    /\ override = [NoOverride EXCEPT !["compress_fits"] = "False"]
    /\ config = {"compress_fits"}
    /\ entered["Cam00"] = <<"compress_fits">>
    /\ metadata["Cam00"].filepath = "image.fits.fz"

(***************************************************************************)
(* Properties of the tracking correction (checked under SpecTracking).     *)
(***************************************************************************)
\* C22: update_tracking makes no mount call when current_offset_info is
\* None; when an offset is stored it calls get_tracking_correction and then
\* correct_tracking, once each, and it returns also when correct_tracking
\* raises Timeout.
C22_UpdateTrackingCalls ==
    tpc.op = "update_tracking" =>
        /\ current_offset_info = 0 => mount_calls = <<>>
        /\ current_offset_info # 0 =>
              mount_calls = <<"get_tracking_correction", "correct_tracking">>
        /\ tpc.out = "returned"

\* An update_tracking with a stored offset in which correct_tracking raised
\* Timeout.
C22_Witness ==
    /\ tpc = Call("update_tracking", "returned", "Timeout")
    /\ current_offset_info = 1
    /\ mount_calls = <<"get_tracking_correction", "correct_tracking">>
    /\ corrected = <<1>>

\* C23: after update_tracking has run, current_offset_info is None, so the
\* update_tracking calls between two analyze_recent calls give at most one
\* correction to the mount: no offset is given to correct_tracking twice.
C23_UpdateClearsOffset ==
    /\ tpc.op = "update_tracking" => current_offset_info = 0
    /\ \A i, j \in 1..Len(corrected) : corrected[i] = corrected[j] => i = j

\* What the code does: update_tracking leaves the stored offset as it is.
UpdateKeepsOffset ==
    [][tpc'.op = "update_tracking" =>
          current_offset_info' = current_offset_info]_vars

\* Two update_tracking calls after one analyze_recent gave the offset of
\* that analysis to the mount twice.
OffsetCorrectedTwice ==
    /\ cycle = 1
    /\ updates = 2
    /\ corrected = <<1, 1>>

\* C30: analyze_recent clears the stored offset first: the offset stored is
\* None or the one of the last analyze_recent; after an analyze_recent whose
\* solve or offset computation failed it is None and update_tracking makes
\* no mount call; an offset given to the mount is the one of the last
\* analyze_recent, never the one of an earlier call.
C30_AnalysisReplacesOffset ==
    /\ current_offset_info \in {0, cycle}
    /\ analysis \in {"SolveError", "compute_offset"} =>
          /\ current_offset_info = 0
          /\ tpc.op = "update_tracking" => mount_calls = <<>>
    /\ (tpc.op = "update_tracking" /\ mount_calls # <<>>) =>
          corrected[Len(corrected)] = cycle

\* The offset of the first analysis was given to the mount, the second
\* analysis could not solve the field, and the update_tracking after it made
\* no mount call.
C30_Witness ==
    /\ cycle = 2
    /\ analysis = "SolveError"
    /\ tpc = Call("update_tracking", "returned", "none")
    /\ corrected = <<1>>
    /\ mount_calls = <<>>
    /\ current_offset_info = 0

(***************************************************************************)
(* Properties of the devices of the Observatory (checked under             *)
(* SpecRegistry).                                                          *)
(***************************************************************************)
\* The devices the observatory holds.
devices == <<cameras, registry, _primary_camera, is_primary, hardware>>

\* C24: add_camera under a name that is registered replaces the camera and
\* leaves the insertion order of the names as it was; remove_camera followed
\* by add_camera of the same name puts the name at the end of the order.
C24_ReplaceKeepsOrder ==
    [][/\ (/\ rpc'.op = "add_camera"
           /\ rpc'.out = "returned"
           /\ registry[rpc'.name] # "None") =>
              /\ cameras' = cameras
              /\ registry'[rpc'.name] = rpc'.obj
       /\ (/\ rpc.op = "remove_camera"
           /\ rpc.out = "returned"
           /\ rpc'.op = "add_camera"
           /\ rpc'.out = "returned"
           /\ rpc'.name = rpc.name) =>
              cameras' = Append(Without(rpc.before, rpc.name), rpc.name)]_vars

\* Cam00, the first of two names, was given another camera and is still the
\* first.
C24_Witness ==
    /\ rpc = RegCall("add_camera", "Cam00", "camB", "returned",
                     <<"Cam00", "Cam01">>)
    /\ cameras = <<"Cam00", "Cam01">>
    /\ registry = [n \in Cameras |-> IF n = "Cam00" THEN "camB" ELSE "camA"]

\* Cam00 was the first of two names, was removed and added again, and is
\* now the last.
RemovedAndAddedIsLast ==
    /\ rpc = RegCall("add_camera", "Cam00", "camA", "returned", <<"Cam01">>)
    /\ cameras = <<"Cam01", "Cam00">>

\* C25: whatever add_camera, remove_camera and primary_camera assignments
\* have been made, at most one of the registered cameras has is_primary set.
C25_AtMostOnePrimaryFlag ==
    Cardinality({o \in CamObjects :
                    /\ is_primary[o]
                    /\ \E n \in Registered : registry[n] = o}) <= 1

\* What the code does: nothing ever clears the is_primary flag of a camera.
PrimaryFlagNeverCleared ==
    [][\A o \in CamObjects : is_primary[o] => is_primary'[o]]_vars

\* C26: when no primary camera has been set and a camera is registered,
\* primary_camera is the first camera in insertion order; when a primary has
\* been set, it is that camera.
C26_PrimaryCameraLookup ==
    rpc.op = "primary_camera" =>
        /\ (_primary_camera = "None" /\ Len(cameras) > 0) =>
              rpc.obj = registry[cameras[1]]
        /\ _primary_camera # "None" => rpc.obj = _primary_camera

\* No primary is set, Cam01 was added before Cam00, and primary_camera is
\* the camera of Cam01.
C26_Witness ==
    /\ rpc.op = "primary_camera"
    /\ _primary_camera = "None"
    /\ cameras = <<"Cam01", "Cam00">>
    /\ registry = [n \in Cameras |-> IF n = "Cam01" THEN "camA" ELSE "camB"]
    /\ rpc.obj = "camA"

\* C27: set_mount, set_dome and set_scheduler raise TypeError for an object
\* of another type and add_camera fails its assertion for an object that is
\* no camera, and the devices are then as they were; None given for mount,
\* dome or scheduler removes the device; an object of the right type is
\* installed.
C27_RegistrationTypeChecked ==
    [][/\ \A t \in HardwareTypes :
            rpc'.op = "set_" \o t =>
                IF IsInstance(rpc'.obj, t) \/ rpc'.obj = "None"
                THEN /\ rpc'.out = "returned"
                     /\ hardware'[t] = rpc'.obj
                ELSE /\ rpc'.out = "TypeError"
                     /\ UNCHANGED devices
       /\ (rpc'.op = "add_camera" /\ rpc'.obj \notin CamObjects) =>
              /\ rpc'.out = "AssertionError"
              /\ UNCHANGED devices]_vars

\* set_mount was given a dome while a mount was installed: TypeError, and
\* the mount is still installed.
C27_Witness ==
    /\ rpc = RegCall("set_mount", "none", "domeA", "TypeError", cameras)
    /\ hardware["mount"] = "mountA"

(***************************************************************************)
(* Properties of load_properties (checked under SpecListing).              *)
(***************************************************************************)
\* The lines of a listing that one of the patterns matches.
Recognised(lines) ==
    SelectSeq(lines, LAMBDA l : LineClass(l) # "unparsed")

\* The lines of a listing other than the blank lines and END.
NotSkipped(lines) == SelectSeq(lines, LAMBDA l : LineClass(l) # "skip")

\* C28: a line of the listing that matches none of the patterns and is
\* neither blank nor END adds nothing to the document load_properties puts
\* together, as blank lines and END add nothing: the document is the one of
\* the listing without these lines.
C28_UnparsedLinesDropped ==
    (ret.op = "load_properties" /\ ret.outcome = "ok") =>
        ret.val = YamlString(Recognised(ret.lines))

\* What the code does: blank lines and END add nothing, and every other
\* line adds a line, the unparsed one as it is.
OnlyBlankAndEndDropped ==
    (ret.op = "load_properties" /\ ret.outcome = "ok") =>
        /\ ret.val = YamlString(NotSkipped(ret.lines))
        /\ \A i \in 1..Len(ret.lines) :
              LineClass(ret.lines[i]) = "unparsed" =>
                  YamlLine(ret.lines[i]) = ret.lines[i] \o "\n"

\* A listing of a label and a Bottom line, whose document has the Bottom
\* line in it.
UnparsedLineInDocument ==
    /\ ret.op = "load_properties"
    /\ ret.outcome = "ok"
    /\ ret.lines = <<"Label: ISO Speed", "Bottom: 0", "">>
    /\ ret.val = "  Label: ISO Speed\nBottom: 0\n"

(***************************************************************************)
(* The hold of a bulb exposure (checked under SpecExposure).               *)
(***************************************************************************)
\* The argument between the trigger and the stop of the remote release.
HoldArg(args) == args[10]

\* --wait-event of n seconds.
WaitEvent(n) == "--wait-event=" \o ToString(n) \o "s"

\* C29: whenever _start_exposure builds the bulb sequence, the hold between
\* the trigger and the stop of the remote release is the number of seconds
\* asked for; it is not zero for a positive duration that matches no entry
\* of the table.
C29_HoldIsRequestedSeconds ==
    (ret.op = "_start_exposure" /\ HasRemoteRelease(cmd_args)) =>
        /\ seconds.d = 1
        /\ HoldArg(cmd_args) = WaitEvent(seconds.n)
        /\ HoldArg(cmd_args) # WaitEvent(0)

\* What the code does: the hold is the whole seconds of the duration, the
\* fraction cut off.
HoldIsWholeSeconds ==
    (ret.op = "_start_exposure" /\ HasRemoteRelease(cmd_args)) =>
        \E n \in 0..seconds.n :
            /\ HoldArg(cmd_args) = WaitEvent(n)
            /\ n * seconds.d <= seconds.n
            /\ seconds.n < (n + 1) * seconds.d

\* An exposure of 0.7 s, which is between two entries of the table: the bulb
\* sequence with a hold of 0 s.
ZeroHold ==
    /\ ret.op = "_start_exposure"
    /\ seconds = Num(7, 10)
    /\ shutterspeed_idx = Returned(0)
    /\ IsBulbSequence(cmd_args)
    /\ HoldArg(cmd_args) = WaitEvent(0)

(***************************************************************************)
(* The primary camera and the registry (checked under SpecRegistry).       *)
(***************************************************************************)
\* The camera objects of the registry.
RegisteredObjects == {registry[n] : n \in Registered}

\* C34: whenever at least one camera is registered, primary_camera is a
\* camera of the registry, also after the primary camera has been removed or
\* its name has been given to another camera.
C34_PrimaryIsRegistered ==
    (rpc.op = "primary_camera" /\ Len(cameras) > 0) =>
        rpc.obj \in RegisteredObjects

\* What the code does: the camera returned is in the registry as long as no
\* primary has been set.
FallbackPrimaryIsRegistered ==
    (rpc.op = "primary_camera" /\ Len(cameras) > 0
        /\ _primary_camera = "None") =>
        rpc.obj \in RegisteredObjects

\* camA is the primary camera, the only registered camera is camB, and
\* primary_camera is camA.
StalePrimaryReturned ==
    /\ rpc.op = "primary_camera"
    /\ rpc.obj = "camA"
    /\ _primary_camera = "camA"
    /\ cameras = <<"Cam00">>
    /\ registry["Cam00"] = "camB"

(***************************************************************************)
(* process_observation over several cameras and over several runs (checked *)
(* under SpecProcess).                                                     *)
(***************************************************************************)
\* The exposure of camera c has all the required keys.
HasKeys(c) == metadata[c].missing = {}

\* C32: in one call of process_observation in which no step raises and no
\* exposure lacks a key, an exposure that is already complete is skipped and
\* the exposures of the cameras after it in the order of the registry are
\* still processed.
C32_CompleteSkippedOthersProcessed ==
    [][(raising' = "none" /\ \A c \in Registered : HasKeys(c)) =>
          \A c \in Registered :
              metadata[c].status # "complete" => InSeq(processed', c)]_vars

\* What the code does: the call ends at the first exposure that is complete;
\* the cameras before it are processed, the ones after it are not reached.
CompleteEndsTheCall ==
    [][(raising' = "none" /\ \A c \in Registered : HasKeys(c)) =>
          \A i \in 1..Len(cameras) :
              InSeq(processed', cameras[i]) <=>
                  \A j \in 1..i : metadata[cameras[j]].status # "complete"]_vars

\* Cam00 is complete and comes first; the call returned without coming to
\* Cam01, whose exposure is not complete.
LaterCameraNotReached ==
    /\ ppc = "returned"
    /\ raising = "none"
    /\ enabled = StepSet
    /\ cameras = <<"Cam00", "Cam01">>
    /\ reached = <<"Cam00">>
    /\ metadata["Cam00"] = Meta({}, "complete", "image.fits")
    /\ metadata["Cam01"] = Meta({}, "", "image.fits")

\* A run of process_observation with the persist step switched on has
\* returned, no step raised, and the exposure of camera c was processed.
Persisted(c) ==
    /\ ppc = "returned"
    /\ raising = "none"
    /\ "record_observations" \in enabled
    /\ InSeq(processed, c)

\* C33: after a run with the persist step switched on in which no step
\* raises, the metadata of the exposure has status 'complete', and the next
\* run executes no step for this exposure, whatever other steps are switched
\* on, plate_solve among them.
C33_SecondRunExecutesNothing ==
    [][\A c \in Registered :
          Persisted(c) =>
              /\ metadata[c].status = "complete"
              /\ entered'[c] = <<>>]_vars

\* What the code does: the same, as long as the solve step did not run.
SecondRunExecutesNothingUnsolved ==
    [][\A c \in Registered :
          (Persisted(c) /\ "plate_solve" \notin enabled) =>
              /\ metadata[c].status = "complete"
              /\ entered'[c] = <<>>]_vars

\* After a run with plate_solve and record_observations switched on, the db
\* has the dict of the solve, and the exposure is not marked complete.
SolvedExposureNotMarked ==
    /\ Persisted("Cam00")
    /\ enabled = {"plate_solve", "record_observations"}
    /\ run["Cam00"] = <<"plate_solve", "record_observations">>
    /\ db["Cam00"] = "solved"
    /\ metadata["Cam00"].status = ""

\* C31: a blocking observe raises TimeoutError only with a camera that still
\* reports observing: once a look of the loop has found every camera not
\* observing, observe returns, also when the timer expires between that look
\* and the test of the timer after the loop.
C31_TimeoutOnlyWhileObserving ==
    [][/\ (opc = "broke" /\ opc' # "broke") => opc' = "returned"
       /\ (opc # "TimeoutError" /\ opc' = "TimeoutError") =>
              \E c \in Registered : is_observing[c]]_vars

\* What the code does: after the break the timer is tested once more, and
\* observe returns only when it has not expired by then; TimeoutError is
\* raised from the end of a sleep or from that test, with the timer expired.
BreakReturnsUnlessExpired ==
    [][/\ (opc = "broke" /\ opc' # "broke") =>
              opc' = (IF now < target_time THEN "returned" ELSE "TimeoutError")
       /\ (opc # "TimeoutError" /\ opc' = "TimeoutError") =>
              /\ opc \in {"sleeping", "broke"}
              /\ now >= target_time]_vars

\* Both cameras had stopped observing before the last look, which was taken
\* before the timer expired, and observe raised TimeoutError half a second
\* after it.
TimeoutAfterBreak ==
    /\ opc = "TimeoutError"
    /\ cameras = <<"Cam00", "Cam01">>
    /\ \A c \in Registered :
          ~is_observing[c] /\ done_at[c] >= 0 /\ done_at[c] < last_poll
    /\ last_poll < target_time
    /\ now = last_poll + 1

=============================================================================
